---- MODULE Spec2Model ----
(***************************************************************************)
(* Household meal planner: the domain services of backend/src/services     *)
(* (inventory ledger, recipe version store, ratings, cooking) over the     *)
(* shared relational store.  today is date.today().                        *)
(*                                                                         *)
(* The store's committed tables are the variables inventory,               *)
(* inventory_history, recipes, recipe_versions, menu_plans, planned_meals  *)
(* and ratings.  A request is one service call running on its own          *)
(* SQLAlchemy session (core/database.py, SessionLocal): what it has read   *)
(* and not yet committed lives in loc[r]; pc[r] names the call it is       *)
(* inside, between its query and its db.commit().  Another request's       *)
(* commit can fall between the two (PostgreSQL READ COMMITTED, no          *)
(* with_for_update()).                                                     *)
(***************************************************************************)
EXTENDS Integers, Sequences, FiniteSets, TLC

VARIABLES inventory, inventory_history, recipes, recipe_versions,
          menu_plans, planned_meals, ratings, today, settings, pc, loc, res

vars == <<inventory, inventory_history, recipes, recipe_versions,
          menu_plans, planned_meals, ratings, today, settings, pc, loc, res>>

inventoryVars == <<inventory, inventory_history>>
recipeVars == <<recipes, recipe_versions>>
planVars == <<menu_plans, planned_meals>>

\* ------------------------------------------------------------- bounds
NumReq == 2
MaxItems == 1
MaxQty == 2
MaxHist == 3
MaxRecipes == 2
MaxVersions == 3
MaxPlans == 2
MaxMeals == 2
MaxIngredients == 2
MaxLedger == 6
MaxCooks == 2
MaxRatings == 3
MaxRaters == 4
MaxDay == 2
MaxWindow == 2

Req == 1..NumReq
ItemIds == 1..MaxItems
RecipeIds == 1..MaxRecipes
VersionNumbers == 1..MaxVersions
PlanIds == 1..MaxPlans
MealIds == 1..MaxMeals
RatingIds == 1..MaxRatings
Users == {"ann", "bob"}

\* MenuPlanCreate.name
PlanNames == {"week"}

\* The users who cook.
Cooks == {"ann"}

\* PlannedMealInput.servings_planned: None (0) or a positive number.
ServingsPlanned == {0, 1}

\* ------------------------------------------------------------ helpers
Max(a, b) == IF a >= b THEN a ELSE b

Last(s) == s[Len(s)]

\* Item and ingredient names as entered, with their case.
Names == {"rice", "Rice", "egg", " Rice"}

\* str.lower() on the names of the model.
Lower(n) ==
    CASE n = "Rice" -> "rice" [] n = " Rice" -> " rice" [] n = "Dinner" -> "dinner"
      [] OTHER -> n

\* str.strip() on the names of the model.
Strip(n) == CASE n = " Rice" -> "Rice" [] n = " rice" -> "rice" [] OTHER -> n

\* str.title() on the lower-cased names of the model.
Title(n) == CASE n = "rice" -> "Rice" [] n = " rice" -> " Rice" [] n = "egg" -> "Egg"
              [] OTHER -> n

\* The names inventory calls are made with.
InventoryNames == {"rice", "Rice"}

\* Column.ilike(name): case-insensitive equality (no wildcard characters in Names).
ilike(column, name) == Lower(column) = Lower(name)

NoLoc == [op |-> "none"]

\* The app_settings table without a row: db.query(AppSettings).first() is None.
NoSettings ==
    [exists |-> FALSE, favorites_threshold |-> 0, favorites_min_raters |-> 0,
     expiration_warning_days |-> 0]

\* expiration_warning_days = Column(Integer, default=7)
DefaultExpirationWarningDays == 7

\* The row of app_settings; favorites_threshold, a Numeric(3, 2), in hundredths.
AppSettings(favorites_threshold, favorites_min_raters) ==
    [exists |-> TRUE, favorites_threshold |-> favorites_threshold,
     favorites_min_raters |-> favorites_min_raters,
     expiration_warning_days |-> DefaultExpirationWarningDays]

Idle(r) == pc[r] = "idle"

\* The request that carries the calls when they are made one after the other.
Caller == CHOOSE r \in Req : TRUE

\* A call returns: the session is closed, its locals are gone; res is the latest call to
\* end, its arguments and the value it returned ("error": it raised).
Return(r, op, args, value) ==
    /\ pc' = [pc EXCEPT ![r] = "idle"]
    /\ loc' = [loc EXCEPT ![r] = NoLoc]
    /\ res' = [op |-> op, args |-> args, value |-> value]

\* A call moves from its query to its pending commit.
Goto(r, label, locals) ==
    /\ pc' = [pc EXCEPT ![r] = label]
    /\ loc' = [loc EXCEPT ![r] = locals]
    /\ UNCHANGED res

\* ---------------------------------------------------------- inventory
\* A row of the inventory table; a deleted row keeps its id and nothing else.
InventoryItem(name, quantity) ==
    [item_name |-> name, quantity |-> quantity, expiration_date |-> 0, live |-> TRUE]

DeletedItem == [item_name |-> "", quantity |-> 0, expiration_date |-> 0, live |-> FALSE]

\* A row of inventory_history (the parent id is the index of inventory_history).
InventoryHistory(change_type, before, after) ==
    [change_type |-> change_type, quantity_before |-> before, quantity_after |-> after]

\* The number of rows in the inventory_history table.
RECURSIVE RowCount(_)
RowCount(table) == IF table = <<>> THEN 0 ELSE Len(Head(table)) + RowCount(Tail(table))

\* The history table has room for another row (the bound of the model).
HistoryRoom == RowCount(inventory_history) < MaxHist

LiveItems == {i \in DOMAIN inventory : inventory[i].live}

\* db.query(InventoryItem).filter(InventoryItem.id == item_id): the matching rows.
ItemById(item_id) == {i \in LiveItems : i = item_id}

\* db.query(InventoryItem).filter(InventoryItem.item_name.ilike(name)): the matching rows;
\* .first() takes any of them (no ORDER BY).
ItemsByName(name) == {i \in LiveItems : ilike(inventory[i].item_name, name)}

\* CheckConstraint("quantity >= 0") of the inventory table.
chk_quantity_non_negative(q) == q >= 0

\* FlushItem with the db.add(history) left out.
FlushItem_NoHistory(i, old_quantity, new_quantity, rows) ==
    /\ inventory' = [inventory EXCEPT ![i].quantity =
                        IF new_quantity # old_quantity THEN new_quantity ELSE @]
    /\ UNCHANGED inventory_history

\* The flush of a session that holds item i with quantity attribute set to new_quantity
\* (loaded as old_quantity) and the history rows added: the UPDATE carries the quantity
\* column only when the attribute's value changed.
FlushItem(i, old_quantity, new_quantity, rows) ==
    /\ inventory' = [inventory EXCEPT ![i].quantity =
                        IF new_quantity # old_quantity THEN new_quantity ELSE @]
    /\ inventory_history' = [inventory_history EXCEPT ![i] = @ \o rows]

\* InventoryService.create_item: the item and its 'purchased' row, one commit.
InsertItem(name, quantity) ==
    /\ inventory' = Append(inventory, InventoryItem(name, quantity))
    /\ inventory_history' = Append(inventory_history,
                                   <<InventoryHistory("purchased", 0, quantity)>>)

create_item(r, name, quantity) ==
    /\ Idle(r)
    /\ Len(inventory) < MaxItems
    /\ HistoryRoom
    /\ InsertItem(name, quantity)
    /\ Return(r, "create_item", <<name, quantity>>, "item")
    /\ UNCHANGED <<recipeVars, planVars, ratings, today, settings>>

\* InventoryItemUpdate payloads: quantity unset, null or a value; item_name unset or a value.
UpdateInputs ==
    [qkind : {"unset"}, quantity : {0}, item_name : {"Rice"}]
    \cup [qkind : {"null"}, quantity : {0}, item_name : {"unset"}]
    \cup [qkind : {"value"}, quantity : 0..MaxQty, item_name : {"unset"}]

\* A history row for every quantity the payload carries.
quantity_changed_Supplied(item_data, old_quantity) == item_data.qkind = "value"

\* 'quantity' in the set fields and new_quantity != old_quantity, for a quantity value.
quantity_changed(item_data, old_quantity) ==
    item_data.qkind = "value" /\ item_data.quantity # old_quantity

\* What update_item holds after its query: the item and old_quantity = item.quantity.
update_item_read(item_id, item_data) ==
    [op |-> "update_item", item |-> item_id,
     old_quantity |-> inventory[item_id].quantity, data |-> item_data]

\* update_item up to the query and old_quantity = item.quantity.
update_item_query(r, item_id, item_data) ==
    /\ Idle(r)
    /\ IF ItemById(item_id) = {}
       THEN Return(r, "update_item", <<item_id, item_data>>, "None")
       ELSE Goto(r, "update_item", update_item_read(item_id, item_data))
    /\ UNCHANGED <<inventoryVars, recipeVars, planVars, ratings, today, settings>>

\* update_item from the setattr loop to db.commit(), holding the read l.
update_item_write(r, l) ==
    LET i == l.item
        d == l.data
        old_quantity == l.old_quantity
        new_quantity == d.quantity
        tracked == quantity_changed(d, old_quantity)
    IN
    /\ IF ~inventory[i].live \/ d.qkind = "null"
       THEN \* the row is gone (StaleDataError) or quantity NULL violates NOT NULL
            /\ Return(r, "update_item", <<l.item, l.data>>, "error")
            /\ UNCHANGED inventoryVars
       ELSE /\ tracked => HistoryRoom
            /\ inventory' = [inventory EXCEPT
                  ![i].quantity = IF tracked THEN new_quantity ELSE @,
                  ![i].item_name = IF d.item_name # "unset" THEN d.item_name ELSE @]
            /\ inventory_history' = [inventory_history EXCEPT ![i] =
                  IF tracked
                  THEN Append(@, InventoryHistory("adjusted", old_quantity, new_quantity))
                  ELSE @]
            /\ Return(r, "update_item", <<l.item, l.data>>, "item")
    /\ UNCHANGED <<recipeVars, planVars, ratings, today, settings>>

update_item_commit(r) == pc[r] = "update_item" /\ update_item_write(r, loc[r])

\* InventoryService.update_item, the whole call.
update_item(r, item_id, item_data) ==
    /\ Idle(r)
    /\ IF ItemById(item_id) = {}
       THEN /\ Return(r, "update_item", <<item_id, item_data>>, "None")
            /\ UNCHANGED <<inventoryVars, recipeVars, planVars, ratings, today, settings>>
       ELSE update_item_write(r, update_item_read(item_id, item_data))

\* InventoryService.delete_item: the item and, by cascade, its history.
delete_item(r, item_id) ==
    /\ Idle(r)
    /\ IF ItemById(item_id) = {}
       THEN /\ Return(r, "delete_item", <<item_id>>, "False")
            /\ UNCHANGED inventoryVars
       ELSE /\ inventory' = [inventory EXCEPT ![item_id] = DeletedItem]
            /\ inventory_history' = [inventory_history EXCEPT ![item_id] = <<>>]
            /\ Return(r, "delete_item", <<item_id>>, "True")
    /\ UNCHANGED <<recipeVars, planVars, ratings, today, settings>>

\* warning_days = settings.expiration_warning_days if settings else days
warning_days(days) == IF settings.exists THEN settings.expiration_warning_days ELSE days

\* db.query(InventoryItem).filter(expiration_date != None, expiration_date <= cutoff_date)
\* with cutoff_date = date.today() + timedelta(days=warning_days)
ExpiringItems(days) ==
    {i \in DOMAIN inventory :
        /\ inventory[i].live
        /\ inventory[i].expiration_date # 0
        /\ inventory[i].expiration_date <= today + warning_days(days)}

\* The results get_expiring_items can return: the rows in the order of their
\* expiration_date (rows of one date in any order), each with days_until.
get_expiring_items_reads(days) ==
    LET items == ExpiringItems(days)
        n == Cardinality(items)
    IN {[k \in 1..n |->
            [item |-> f[k], days_until |-> inventory[f[k]].expiration_date - today]] :
          f \in {f \in [1..n -> items] :
                   /\ \A a, b \in 1..n : f[a] = f[b] => a = b
                   /\ \A a, b \in 1..n :
                         a < b => inventory[f[a]].expiration_date
                                     <= inventory[f[b]].expiration_date}}

\* InventoryService.get_expiring_items
get_expiring_items(r, days) ==
    /\ Idle(r)
    /\ \E result \in get_expiring_items_reads(days) :
          Return(r, "get_expiring_items", <<days>>, result)
    /\ UNCHANGED <<inventoryVars, recipeVars, planVars, ratings, today, settings>>

\* DeductedQuantity without the max(Decimal(0), ...) floor.
DeductedQuantity_Unclamped(old_quantity, quantity) == old_quantity - quantity

\* new_quantity = max(Decimal(0), old_quantity - quantity)
DeductedQuantity(old_quantity, quantity) == Max(0, old_quantity - quantity)

\* What deduct_quantity holds after its query: the item and old_quantity = item.quantity.
deduct_quantity_read(item_id, quantity) ==
    [op |-> "deduct_quantity", item |-> item_id,
     old_quantity |-> inventory[item_id].quantity, quantity |-> quantity]

\* deduct_quantity up to the query and old_quantity = item.quantity.
deduct_quantity_query(r, item_id, quantity) ==
    /\ Idle(r)
    /\ IF ItemById(item_id) = {}
       THEN Return(r, "deduct_quantity", <<item_id, quantity>>, "False")
       ELSE Goto(r, "deduct_quantity", deduct_quantity_read(item_id, quantity))
    /\ UNCHANGED <<inventoryVars, recipeVars, planVars, ratings, today, settings>>

\* The write of deduct_quantity: item.quantity = new_quantity and the 'auto_deducted' row.
DeductWrite(i, old_quantity, quantity) ==
    LET new_quantity == DeductedQuantity(old_quantity, quantity) IN
    FlushItem(i, old_quantity, new_quantity,
              <<InventoryHistory("auto_deducted", old_quantity, new_quantity)>>)

\* deduct_quantity from new_quantity to db.commit(), holding the read l.
deduct_quantity_write(r, l) ==
    LET i == l.item IN
    /\ IF \/ ~inventory[i].live
          \/ ~chk_quantity_non_negative(DeductedQuantity(l.old_quantity, l.quantity))
       THEN /\ Return(r, "deduct_quantity", <<l.item, l.quantity>>, "error")
            /\ UNCHANGED inventoryVars
       ELSE /\ HistoryRoom
            /\ DeductWrite(i, l.old_quantity, l.quantity)
            /\ Return(r, "deduct_quantity", <<l.item, l.quantity>>, "True")
    /\ UNCHANGED <<recipeVars, planVars, ratings, today, settings>>

deduct_quantity_commit(r) == pc[r] = "deduct_quantity" /\ deduct_quantity_write(r, loc[r])

\* InventoryService.deduct_quantity, the whole call.
deduct_quantity(r, item_id, quantity) ==
    /\ Idle(r)
    /\ IF ItemById(item_id) = {}
       THEN /\ Return(r, "deduct_quantity", <<item_id, quantity>>, "False")
            /\ UNCHANGED <<inventoryVars, recipeVars, planVars, ratings, today, settings>>
       ELSE deduct_quantity_write(r, deduct_quantity_read(item_id, quantity))

\* find_or_create_item up to the query: an existing item is returned as it is.
find_or_create_item_query(r, name) ==
    /\ Idle(r)
    /\ IF ItemsByName(name) # {}
       THEN Return(r, "find_or_create_item", <<name>>, "item")
       ELSE Goto(r, "find_or_create_item", [op |-> "find_or_create_item", name |-> name])
    /\ UNCHANGED <<inventoryVars, recipeVars, planVars, ratings, today, settings>>

\* find_or_create_item: the zero-quantity placeholder, added without a history row.
find_or_create_item_write(r, l) ==
    /\ Len(inventory) < MaxItems
    /\ inventory' = Append(inventory, InventoryItem(l.name, 0))
    /\ inventory_history' = Append(inventory_history, <<>>)
    /\ Return(r, "find_or_create_item", <<l.name>>, "item")
    /\ UNCHANGED <<recipeVars, planVars, ratings, today, settings>>

find_or_create_item_commit(r) ==
    pc[r] = "find_or_create_item" /\ find_or_create_item_write(r, loc[r])

\* InventoryService.find_or_create_item, the whole call.
find_or_create_item(r, name) ==
    /\ Idle(r)
    /\ IF ItemsByName(name) # {}
       THEN /\ Return(r, "find_or_create_item", <<name>>, "item")
            /\ UNCHANGED <<inventoryVars, recipeVars, planVars, ratings, today, settings>>
       ELSE find_or_create_item_write(r, [op |-> "find_or_create_item", name |-> name])

\* Quantities mark_item_purchased is called with (a plain Decimal, not validated).
PurchaseQuantities == {-1, 1}

\* What mark_item_purchased can hold after its query: any matching item (.first() without
\* ORDER BY) with its quantity, or item 0 when none matches.
mark_item_purchased_reads(item_name, quantity) ==
    IF ItemsByName(item_name) = {}
    THEN {[op |-> "mark_item_purchased", item |-> 0, item_name |-> item_name,
           old_quantity |-> 0, quantity |-> quantity]}
    ELSE {[op |-> "mark_item_purchased", item |-> i, item_name |-> item_name,
           old_quantity |-> inventory[i].quantity, quantity |-> quantity] :
             i \in ItemsByName(item_name)}

\* mark_item_purchased up to the query (and old_quantity = item.quantity when found).
mark_item_purchased_query(r, item_name, quantity) ==
    /\ Idle(r)
    /\ \E l \in mark_item_purchased_reads(item_name, quantity) :
          Goto(r, "mark_item_purchased", l)
    /\ UNCHANGED <<inventoryVars, recipeVars, planVars, ratings, today, settings>>

\* mark_item_purchased from the branch on the found item to db.commit(), holding the read l.
mark_item_purchased_write(r, l) ==
    LET i == l.item
        old_quantity == l.old_quantity
        new_quantity == old_quantity + l.quantity
    IN
    /\ IF i # 0
       THEN IF ~inventory[i].live \/ ~chk_quantity_non_negative(new_quantity)
            THEN /\ Return(r, "mark_item_purchased", <<l.item_name, l.quantity>>, "error")
                 /\ UNCHANGED inventoryVars
            ELSE /\ HistoryRoom
                 /\ new_quantity <= MaxQty
                 /\ FlushItem(i, old_quantity, new_quantity,
                              <<InventoryHistory("purchased", old_quantity, new_quantity)>>)
                 /\ Return(r, "mark_item_purchased", <<l.item_name, l.quantity>>, "True")
       ELSE IF l.quantity < 0
            THEN \* InventoryItemCreate(quantity=...) with ge=0 raises
                 /\ Return(r, "mark_item_purchased", <<l.item_name, l.quantity>>, "error")
                 /\ UNCHANGED inventoryVars
            ELSE /\ Len(inventory) < MaxItems
                 /\ HistoryRoom
                 /\ InsertItem(l.item_name, l.quantity)
                 /\ Return(r, "mark_item_purchased", <<l.item_name, l.quantity>>, "True")
    /\ UNCHANGED <<recipeVars, planVars, ratings, today, settings>>

mark_item_purchased_commit(r) ==
    pc[r] = "mark_item_purchased" /\ mark_item_purchased_write(r, loc[r])

\* ShoppingListService.mark_item_purchased, the whole call.
mark_item_purchased(r, item_name, quantity) ==
    /\ Idle(r)
    /\ \E l \in mark_item_purchased_reads(item_name, quantity) :
          mark_item_purchased_write(r, l)

\* ------------------------------------------------------------ recipes
\* An IngredientInput / a row of ingredients; quantity 0 stands for NULL (no quantity)
\* and "" for a unit or category that is None.
Ingredient(name, quantity, unit, category, is_optional) ==
    [name |-> name, quantity |-> quantity, unit |-> unit, category |-> category,
     is_optional |-> is_optional]

\* Two RecipeUpdate payloads that differ in every field (RecipeCreate carries no
\* change_description; <<>> is None).
FriedRice ==
    [title |-> "Fried rice", description |-> "with egg",
     prep_time_minutes |-> 10, cook_time_minutes |-> 20, servings |-> 2,
     difficulty |-> "easy", instructions |-> "fry",
     ingredients |-> <<Ingredient("Rice", 2, "cup", "grains", FALSE),
                       Ingredient("egg", 2, "pc", "dairy", FALSE)>>,
     tags |-> {"Dinner"}, change_description |-> <<"more egg">>]

RicePudding ==
    [title |-> "Rice pudding", description |-> "sweet",
     prep_time_minutes |-> 5, cook_time_minutes |-> 40, servings |-> 1,
     difficulty |-> "hard", instructions |-> "simmer",
     ingredients |-> <<Ingredient("egg", 1, "pc", "", TRUE),
                       Ingredient("rice", 0, "", "pantry", FALSE)>>,
     tags |-> {}, change_description |-> <<>>]

RecipePayloads == {FriedRice, RicePudding}

\* A RecipeCreate payload whose ingredient name carries a leading blank, another unit
\* and no category.
Congee ==
    [title |-> "Congee", description |-> "plain",
     prep_time_minutes |-> 5, cook_time_minutes |-> 60, servings |-> 1,
     difficulty |-> "easy", instructions |-> "boil",
     ingredients |-> <<Ingredient(" Rice", 1, "bowl", "", FALSE)>>,
     tags |-> {}, change_description |-> <<>>]

\* A row of recipes.
Recipe(title, description, tags) ==
    [title |-> title, description |-> description, current_version |-> 1,
     is_deleted |-> FALSE, times_cooked |-> 0, last_cooked_date |-> 0, tags |-> tags]

\* A row of recipe_versions with its ingredients rows in display_order; the scalar
\* fields and ingredients are taken from src (a payload or another version).
RecipeVersion(recipe_id, version_number, src, ingredients, change_description) ==
    [recipe_id |-> recipe_id, version_number |-> version_number,
     prep_time_minutes |-> src.prep_time_minutes,
     cook_time_minutes |-> src.cook_time_minutes,
     servings |-> src.servings, difficulty |-> src.difficulty,
     instructions |-> src.instructions,
     change_description |-> change_description,
     ingredients |-> ingredients]

\* Ingredient(..., is_optional=ing_data.is_optional or False, display_order=idx)
InputIngredients(data) ==
    [k \in DOMAIN data.ingredients |->
        [data.ingredients[k] EXCEPT !.is_optional = (@ = TRUE)]]

\* tag.lower() for every tag
LowerTags(tags) == {Lower(t) : t \in tags}

\* The recipe rows by id alone, soft-deleted ones included.
LiveRecipes_AnyRow == DOMAIN recipes

\* db.query(Recipe).filter(Recipe.id == recipe_id, Recipe.is_deleted == False)
LiveRecipes == {i \in DOMAIN recipes : ~recipes[i].is_deleted}

\* db.query(RecipeVersion).filter(recipe_id == ..., version_number == ...): the matching
\* rows; .first() takes any of them (no ORDER BY).
VersionsByNumber(recipe_id, version_number) ==
    {k \in DOMAIN recipe_versions :
        /\ recipe_versions[k].recipe_id = recipe_id
        /\ recipe_versions[k].version_number = version_number}

\* The recipe_versions table has room for another row (the bound of the model).
VersionRoom == Len(recipe_versions) < MaxVersions

\* RecipeService.create_recipe: the recipe, version 1, its ingredients and tags, one commit.
create_recipe(r, recipe_data) ==
    /\ Idle(r)
    /\ Len(recipes) < MaxRecipes
    /\ VersionRoom
    /\ recipes' = Append(recipes, Recipe(recipe_data.title, recipe_data.description,
                                         LowerTags(recipe_data.tags)))
    /\ recipe_versions' = Append(recipe_versions,
          RecipeVersion(Len(recipes) + 1, 1, recipe_data, InputIngredients(recipe_data), <<>>))
    /\ Return(r, "create_recipe", <<recipe_data>>, "recipe")
    /\ UNCHANGED <<inventoryVars, planVars, ratings, today, settings>>

\* What update_recipe holds after its query: the recipe row as loaded.
update_recipe_read(recipe_id, recipe_data) ==
    [op |-> "update_recipe", recipe |-> recipe_id, loaded |-> recipes[recipe_id],
     data |-> recipe_data]

\* update_recipe up to the query of the recipe.
update_recipe_query(r, recipe_id, recipe_data) ==
    /\ Idle(r)
    /\ IF recipe_id \notin LiveRecipes
       THEN Return(r, "update_recipe", <<recipe_id, recipe_data>>, "None")
       ELSE Goto(r, "update_recipe", update_recipe_read(recipe_id, recipe_data))
    /\ UNCHANGED <<inventoryVars, recipeVars, planVars, ratings, today, settings>>

\* The UPDATE of a recipe row at flush: a column is written when the attribute's value
\* differs from the loaded one.
FlushRecipe(recipe_id, loaded, attrs) ==
    [recipes EXCEPT
        ![recipe_id].title = IF attrs.title # loaded.title THEN attrs.title ELSE @,
        ![recipe_id].description =
            IF attrs.description # loaded.description THEN attrs.description ELSE @,
        ![recipe_id].current_version =
            IF attrs.current_version # loaded.current_version
            THEN attrs.current_version ELSE @]

\* update_recipe with the version written over the current one instead of added.
StoreVersion_InPlace(recipe_id, version) ==
    [k \in DOMAIN recipe_versions |->
        IF recipe_versions[k].recipe_id = recipe_id
        THEN [version EXCEPT !.version_number = recipe_versions[k].version_number]
        ELSE recipe_versions[k]]

\* db.add(version) and db.add(ingredient) for each ingredient: a new row.
StoreVersion(recipe_id, version) == Append(recipe_versions, version)

\* update_recipe from new_version_number to db.commit(), holding the read l.
update_recipe_write(r, l) ==
    LET d == l.data
        new_version_number == l.loaded.current_version + 1
    IN
    /\ VersionRoom
    /\ recipe_versions' = StoreVersion(l.recipe,
          RecipeVersion(l.recipe, new_version_number, d, InputIngredients(d),
                        d.change_description))
    /\ recipes' = [FlushRecipe(l.recipe, l.loaded,
                               [title |-> d.title, description |-> d.description,
                                current_version |-> new_version_number])
                     EXCEPT ![l.recipe].tags = LowerTags(d.tags)]
    /\ Return(r, "update_recipe", <<l.recipe, l.data>>, "recipe")
    /\ UNCHANGED <<inventoryVars, planVars, ratings, today, settings>>

update_recipe_commit(r) == pc[r] = "update_recipe" /\ update_recipe_write(r, loc[r])

\* RecipeService.update_recipe, the whole call.
update_recipe(r, recipe_id, recipe_data) ==
    /\ Idle(r)
    /\ IF recipe_id \notin LiveRecipes
       THEN /\ Return(r, "update_recipe", <<recipe_id, recipe_data>>, "None")
            /\ UNCHANGED <<inventoryVars, recipeVars, planVars, ratings, today, settings>>
       ELSE update_recipe_write(r, update_recipe_read(recipe_id, recipe_data))

\* RecipeService.delete_recipe: the soft delete (the query does not filter on is_deleted).
delete_recipe(r, recipe_id) ==
    /\ Idle(r)
    /\ IF recipe_id \notin DOMAIN recipes
       THEN /\ Return(r, "delete_recipe", <<recipe_id>>, "False")
            /\ UNCHANGED recipes
       ELSE /\ recipes' = [recipes EXCEPT ![recipe_id].is_deleted = TRUE]
            /\ Return(r, "delete_recipe", <<recipe_id>>, "True")
    /\ UNCHANGED <<inventoryVars, recipe_versions, planVars, ratings, today, settings>>

\* What revert_recipe can hold after its queries: the recipe row as loaded and the
\* target version with its ingredients (any row with that number).
revert_recipe_reads(recipe_id, version_number) ==
    {[op |-> "revert_recipe", recipe |-> recipe_id, loaded |-> recipes[recipe_id],
      version_number |-> version_number, target_version |-> recipe_versions[k]] :
        k \in VersionsByNumber(recipe_id, version_number)}

\* revert_recipe up to the queries of the recipe, the target version and its ingredients.
revert_recipe_query(r, recipe_id, version_number) ==
    /\ Idle(r)
    /\ IF recipe_id \notin LiveRecipes \/ VersionsByNumber(recipe_id, version_number) = {}
       THEN Return(r, "revert_recipe", <<recipe_id, version_number>>, "None")
       ELSE \E l \in revert_recipe_reads(recipe_id, version_number) :
                Goto(r, "revert_recipe", l)
    /\ UNCHANGED <<inventoryVars, recipeVars, planVars, ratings, today, settings>>

\* revert_recipe rewinding current_version to the target instead of copying it forward.
revert_recipe_write_Rewind(r, l) ==
    /\ recipes' = [recipes EXCEPT ![l.recipe].current_version = l.version_number]
    /\ Return(r, "revert_recipe", <<l.recipe, l.version_number>>, "recipe")
    /\ UNCHANGED <<inventoryVars, recipe_versions, planVars, ratings, today, settings>>

\* revert_recipe that also starts the recipe's cooking statistics afresh.
revert_recipe_write_FreshStats(r, l) ==
    LET new_version_number == l.loaded.current_version + 1 IN
    /\ VersionRoom
    /\ recipe_versions' = StoreVersion(l.recipe,
          RecipeVersion(l.recipe, new_version_number, l.target_version,
                        l.target_version.ingredients,
                        <<"Reverted to version", l.version_number>>))
    /\ recipes' = [recipes EXCEPT ![l.recipe].current_version = new_version_number,
                                  ![l.recipe].times_cooked = 0,
                                  ![l.recipe].last_cooked_date = 0]
    /\ Return(r, "revert_recipe", <<l.recipe, l.version_number>>, "recipe")
    /\ UNCHANGED <<inventoryVars, planVars, ratings, today, settings>>

\* revert_recipe from new_version_number to db.commit(), holding the read l.
revert_recipe_write(r, l) ==
    LET new_version_number == l.loaded.current_version + 1 IN
    /\ VersionRoom
    /\ recipe_versions' = StoreVersion(l.recipe,
          RecipeVersion(l.recipe, new_version_number, l.target_version,
                        l.target_version.ingredients,
                        <<"Reverted to version", l.version_number>>))
    /\ recipes' = FlushRecipe(l.recipe, l.loaded,
                              [title |-> l.loaded.title,
                               description |-> l.loaded.description,
                               current_version |-> new_version_number])
    /\ Return(r, "revert_recipe", <<l.recipe, l.version_number>>, "recipe")
    /\ UNCHANGED <<inventoryVars, planVars, ratings, today, settings>>

revert_recipe_commit(r) == pc[r] = "revert_recipe" /\ revert_recipe_write(r, loc[r])

\* RecipeService.revert_recipe, the whole call.
revert_recipe(r, recipe_id, version_number) ==
    /\ Idle(r)
    /\ IF recipe_id \notin LiveRecipes \/ VersionsByNumber(recipe_id, version_number) = {}
       THEN /\ Return(r, "revert_recipe", <<recipe_id, version_number>>, "None")
            /\ UNCHANGED <<inventoryVars, recipeVars, planVars, ratings, today, settings>>
       ELSE \E l \in revert_recipe_reads(recipe_id, version_number) :
                revert_recipe_write(r, l)

\* ---------------------------------------------------------- menu plans
\* A row of menu_plans.
MenuPlan(name) == [name |-> name, is_active |-> TRUE]

\* A row of planned_meals; servings_planned 0 stands for NULL, cooked_date 0 and
\* cooked_by "" for NULL.
PlannedMeal(plan_id, recipe_id, servings_planned) ==
    [menu_plan_id |-> plan_id, recipe_id |-> recipe_id,
     servings_planned |-> servings_planned,
     cooked |-> FALSE, cooked_date |-> 0, cooked_by |-> ""]

\* MenuPlanService.create_menu_plan
create_menu_plan(r, name) ==
    /\ Idle(r)
    /\ Len(menu_plans) < MaxPlans
    /\ menu_plans' = Append(menu_plans, MenuPlan(name))
    /\ Return(r, "create_menu_plan", <<name>>, "plan")
    /\ UNCHANGED <<inventoryVars, recipeVars, planned_meals, ratings, today, settings>>

\* MenuPlanService.add_meal_to_plan: the plan and the non-deleted recipe must exist.
add_meal_to_plan(r, plan_id, recipe_id, servings_planned) ==
    /\ Idle(r)
    /\ IF plan_id \notin DOMAIN menu_plans \/ recipe_id \notin LiveRecipes
       THEN /\ Return(r, "add_meal_to_plan", <<plan_id, recipe_id, servings_planned>>, "None")
            /\ UNCHANGED planned_meals
       ELSE /\ Len(planned_meals) < MaxMeals
            /\ planned_meals' = Append(planned_meals,
                                       PlannedMeal(plan_id, recipe_id, servings_planned))
            /\ Return(r, "add_meal_to_plan", <<plan_id, recipe_id, servings_planned>>, "meal")
    /\ UNCHANGED <<inventoryVars, recipeVars, menu_plans, ratings, today, settings>>

\* What is left at the id of a planned meal whose row has been deleted.
DeletedMeal ==
    [menu_plan_id |-> 0, recipe_id |-> 0, servings_planned |-> 0,
     cooked |-> FALSE, cooked_date |-> 0, cooked_by |-> ""]

\* MenuPlanUpdate payloads: name and is_active left out ("" and "unset") or set, meals
\* left out or a list of PlannedMealInput (empty, or one meal of a recipe).
MenuPlanUpdates ==
    {[name |-> f[1], is_active |-> f[2], has_meals |-> ms[1], meals |-> ms[2]] :
        f \in {<<"", "unset">>, <<"feast", "false">>},
        ms \in {<<FALSE, <<>>>>, <<TRUE, <<>>>>}
                \cup {<<TRUE, <<[recipe_id |-> i, servings_planned |-> 0]>>>> :
                         i \in RecipeIds}}

\* An update that reuses the row of the plan's first meal for the payload's meal, reset
\* to a new meal's values.
ReplacedMeals_RowReused(plan_id, meals) ==
    LET old == {m \in DOMAIN planned_meals : planned_meals[m].menu_plan_id = plan_id}
        first == IF old = {} THEN 0 ELSE CHOOSE m \in old : \A o \in old : m <= o
    IN [m \in DOMAIN planned_meals |->
           IF m = first /\ meals # <<>>
           THEN PlannedMeal(plan_id, meals[1].recipe_id, meals[1].servings_planned)
           ELSE IF m \in old THEN DeletedMeal ELSE planned_meals[m]]

\* db.query(PlannedMeal).filter(menu_plan_id == plan_id).delete() and a new PlannedMeal
\* row (cooked = False by default) for every meal of the payload.
ReplacedMeals(plan_id, meals) ==
    [m \in DOMAIN planned_meals |->
        IF planned_meals[m].menu_plan_id = plan_id THEN DeletedMeal ELSE planned_meals[m]]
      \o [k \in DOMAIN meals |->
            PlannedMeal(plan_id, meals[k].recipe_id, meals[k].servings_planned)]

\* MenuPlanService.update_menu_plan: a meal of a recipe id without a row breaks the
\* foreign key at the commit and nothing is written.
update_menu_plan(r, plan_id, plan_data) ==
    /\ Idle(r)
    /\ IF plan_id \notin DOMAIN menu_plans
       THEN /\ Return(r, "update_menu_plan", <<plan_id, plan_data>>, "None")
            /\ UNCHANGED <<menu_plans, planned_meals>>
       ELSE IF plan_data.has_meals
               /\ \E k \in DOMAIN plan_data.meals :
                     plan_data.meals[k].recipe_id \notin DOMAIN recipes
       THEN /\ Return(r, "update_menu_plan", <<plan_id, plan_data>>, "error")
            /\ UNCHANGED <<menu_plans, planned_meals>>
       ELSE /\ Len(ReplacedMeals(plan_id, plan_data.meals)) <= MaxMeals
            /\ menu_plans' = [menu_plans EXCEPT
                  ![plan_id].name = IF plan_data.name # "" THEN plan_data.name ELSE @,
                  ![plan_id].is_active = IF plan_data.is_active = "false" THEN FALSE ELSE @]
            /\ planned_meals' = IF plan_data.has_meals
                                THEN ReplacedMeals(plan_id, plan_data.meals)
                                ELSE planned_meals
            /\ Return(r, "update_menu_plan", <<plan_id, plan_data>>, "plan")
    /\ UNCHANGED <<inventoryVars, recipeVars, ratings, today, settings>>

\* MenuPlanService.remove_meal_from_plan
remove_meal_from_plan(r, meal_id) ==
    /\ Idle(r)
    /\ IF meal_id \in DOMAIN planned_meals /\ planned_meals[meal_id] # DeletedMeal
       THEN /\ planned_meals' = [planned_meals EXCEPT ![meal_id] = DeletedMeal]
            /\ Return(r, "remove_meal_from_plan", <<meal_id>>, "True")
       ELSE /\ UNCHANGED planned_meals
            /\ Return(r, "remove_meal_from_plan", <<meal_id>>, "False")
    /\ UNCHANGED <<inventoryVars, recipeVars, menu_plans, ratings, today, settings>>

\* ------------------------------------------------------------ cooking
\* The committed tables mark_meal_cooked reads and writes, as one value.
Store ==
    [inventory |-> inventory, inventory_history |-> inventory_history,
     recipes |-> recipes, planned_meals |-> planned_meals]

\* The tables of S become the committed tables.
Commit(S) ==
    /\ inventory' = S.inventory
    /\ inventory_history' = S.inventory_history
    /\ recipes' = S.recipes
    /\ planned_meals' = S.planned_meals

\* The orders in which a query without ORDER BY can return the rows of s.
Orders(s) ==
    {[k \in DOMAIN s |-> s[p[k]]] :
        p \in {f \in [DOMAIN s -> DOMAIN s] : \A a, b \in DOMAIN s : f[a] = f[b] => a = b}}

\* The meal looked up among the meals of the plan that are not cooked yet.
MealById_Uncooked(plan_id, meal_id) ==
    {m \in DOMAIN planned_meals :
        m = meal_id /\ planned_meals[m].menu_plan_id = plan_id /\ ~planned_meals[m].cooked}

\* The meal looked up by its id alone.
MealById_AnyPlan(plan_id, meal_id) == {m \in DOMAIN planned_meals : m = meal_id}

\* db.query(PlannedMeal).filter(PlannedMeal.id == meal_id, menu_plan_id == plan_id)
MealById(plan_id, meal_id) ==
    {m \in DOMAIN planned_meals : m = meal_id /\ planned_meals[m].menu_plan_id = plan_id}

\* a or b or 1 on Optional[int] values (0 stands for None and is falsy as well)
Or1(a, b) == IF a # 0 THEN a ELSE IF b # 0 THEN b ELSE 1

\* The ingredient's quantity taken as it stands, whatever the servings planned.
quantity_to_deduct_Unscaled(ing, servings_planned, servings) == ing.quantity

\* quantity_to_deduct = ing.quantity * servings_ratio with servings_ratio =
\* (meal.servings_planned or version.servings or 1) / (version.servings or 1); the
\* quotients of the model's recipes are whole numbers.
quantity_to_deduct(ing, servings_planned, servings) ==
    (ing.quantity * Or1(servings_planned, servings)) \div Or1(servings, 0)

\* What mark_meal_cooked can hold after its queries of the meal, the recipe, the current
\* version (any row with that number) and its ingredients (in any order): the session
\* has meal.cooked, cooked_date, cooked_by, recipe.last_cooked_date and times_cooked set
\* and not flushed (dirty).
mark_meal_cooked_reads(plan_id, meal_id, user_id) ==
    LET meal == planned_meals[meal_id]
        recipe == recipes[meal.recipe_id]
        versions == VersionsByNumber(meal.recipe_id, recipe.current_version)
        session(ings, servings) ==
            [op |-> "mark_meal_cooked", plan |-> plan_id, meal |-> meal_id,
             user |-> user_id, recipe |-> meal.recipe_id, today |-> today,
             times_cooked |-> recipe.times_cooked + 1, servings |-> servings,
             ingredients |-> ings, dirty |-> TRUE, failed |-> FALSE,
             item |-> 0, old_quantity |-> 0, quantity |-> 0,
             inventory_changes |-> <<>>]
    IN IF versions = {}
       THEN {session(<<>>, 0)}
       ELSE UNION {{session(ings, recipe_versions[k].servings) :
                       ings \in Orders(recipe_versions[k].ingredients)} : k \in versions}

\* A flush that writes the meal's attributes and leaves the recipe row as it was.
FlushCooked_MealOnly(S, l) ==
    IF ~l.dirty THEN S
    ELSE [S EXCEPT
            !.planned_meals[l.meal].cooked = TRUE,
            !.planned_meals[l.meal].cooked_date = l.today,
            !.planned_meals[l.meal].cooked_by = l.user]

\* A flush that writes the count of cookings without the date of the last one.
FlushCooked_CountOnly(S, l) ==
    IF ~l.dirty THEN S
    ELSE [S EXCEPT
            !.planned_meals[l.meal].cooked = TRUE,
            !.planned_meals[l.meal].cooked_date = l.today,
            !.planned_meals[l.meal].cooked_by = l.user,
            !.recipes[l.recipe].times_cooked = l.times_cooked]

\* The flush of the session's pending meal and recipe attributes into S.
FlushCooked(S, l) ==
    IF ~l.dirty THEN S
    ELSE [S EXCEPT
            !.planned_meals[l.meal].cooked = TRUE,
            !.planned_meals[l.meal].cooked_date = l.today,
            !.planned_meals[l.meal].cooked_by = l.user,
            !.recipes[l.recipe].last_cooked_date = l.today,
            !.recipes[l.recipe].times_cooked = l.times_cooked]

\* A pass of the loop that goes on to deduct_quantity without looking at ing.quantity.
ingredient_reads_AnyQuantity(S, l) ==
    LET ing == Head(l.ingredients)
        items == {i \in DOMAIN S.inventory :
                     S.inventory[i].live /\ ilike(S.inventory[i].item_name, ing.name)}
        rest == [l EXCEPT !.ingredients = Tail(@)]
    IN IF ing.is_optional \/ items = {}
       THEN {rest}
       ELSE {[rest EXCEPT
                !.item = i,
                !.old_quantity = S.inventory[i].quantity,
                !.quantity = ing.quantity] : i \in items}

\* One pass of the ingredient loop up to the call of deduct_quantity and its query:
\* the ingredient is skipped (optional, no matching item, no quantity), or the session
\* holds the item (.first(): any match) and old_quantity = item.quantity.
ingredient_reads(S, l) ==
    LET ing == Head(l.ingredients)
        items == {i \in DOMAIN S.inventory :
                     S.inventory[i].live /\ ilike(S.inventory[i].item_name, ing.name)}
        rest == [l EXCEPT !.ingredients = Tail(@)]
    IN IF ing.is_optional \/ items = {} \/ ing.quantity = 0
       THEN {rest}
       ELSE {[rest EXCEPT
                !.item = i,
                !.old_quantity = S.inventory[i].quantity,
                !.quantity = quantity_to_deduct(
                                 ing, S.planned_meals[l.meal].servings_planned, l.servings)] :
               i \in items}

\* deduct_quantity inside the loop, from new_quantity to its db.commit(): the commit
\* flushes the session's pending meal and recipe attributes with the item and the
\* history row; the call raises when the item row is gone.
deduct_commit(S, l) ==
    LET i == l.item
        new_quantity == DeductedQuantity(l.old_quantity, l.quantity)
        flushed == FlushCooked(S, l)
    IN IF ~S.inventory[i].live \/ ~chk_quantity_non_negative(new_quantity)
       THEN [store |-> S, session |-> [l EXCEPT !.failed = TRUE]]
       ELSE [store |->
                [flushed EXCEPT
                    !.inventory[i].quantity =
                        IF new_quantity # l.old_quantity THEN new_quantity ELSE @,
                    !.inventory_history[i] =
                        Append(@, InventoryHistory("auto_deducted", l.old_quantity,
                                                   new_quantity))],
             session |->
                [l EXCEPT
                    !.dirty = FALSE, !.item = 0, !.old_quantity = 0, !.quantity = 0,
                    !.inventory_changes =
                        Append(@, [item_name |-> S.inventory[i].item_name,
                                   quantity_deducted |-> l.quantity])]]

\* The runs of mark_meal_cooked from the state (S, l) to its end: the final db.commit()
\* or the exception.
RECURSIVE cook_runs(_, _)
cook_runs(S, l) ==
    IF l.failed THEN {[store |-> S, session |-> l]}
    ELSE IF l.item # 0
    THEN LET next == deduct_commit(S, l) IN cook_runs(next.store, next.session)
    ELSE IF l.ingredients # <<>>
    THEN UNION {cook_runs(S, l2) : l2 \in ingredient_reads(S, l)}
    ELSE {[store |-> FlushCooked(S, l), session |-> l]}

\* The history table has room for the rows of another mark_meal_cooked call and the
\* meal's recipe has been cooked fewer than MaxCooks times (the bounds of the model).
CookRoom(meal_id) ==
    /\ RowCount(inventory_history)
          + MaxIngredients
              * (1 + Cardinality({r \in Req : pc[r] \in {"cook_loop", "cook_deduct"}}))
         <= MaxLedger
    /\ recipes[planned_meals[meal_id].recipe_id].times_cooked < MaxCooks

CookArgs(l) == <<l.plan, l.meal, l.user>>

\* mark_meal_cooked up to the queries before the ingredient loop.
mark_meal_cooked_query(r, plan_id, meal_id, user_id) ==
    /\ Idle(r)
    /\ IF MealById(plan_id, meal_id) = {}
       THEN Return(r, "mark_meal_cooked", <<plan_id, meal_id, user_id>>, <<"None", <<>>>>)
       ELSE /\ CookRoom(meal_id)
            /\ \E l \in mark_meal_cooked_reads(plan_id, meal_id, user_id) :
                  Goto(r, "cook_loop", l)
    /\ UNCHANGED <<inventoryVars, recipeVars, planVars, ratings, today, settings>>

\* The loop of mark_meal_cooked at its next ingredient.
cook_ingredient(r) ==
    /\ pc[r] = "cook_loop"
    /\ loc[r].ingredients # <<>>
    /\ \E l \in ingredient_reads(Store, loc[r]) :
          Goto(r, IF l.item # 0 THEN "cook_deduct" ELSE "cook_loop", l)
    /\ UNCHANGED <<inventoryVars, recipeVars, planVars, ratings, today, settings>>

\* The commit of deduct_quantity inside the loop.
cook_deduct(r) ==
    LET next == deduct_commit(Store, loc[r]) IN
    /\ pc[r] = "cook_deduct"
    /\ Commit(next.store)
    /\ IF next.session.failed
       THEN Return(r, "mark_meal_cooked", CookArgs(loc[r]), <<"error", <<>>>>)
       ELSE Goto(r, "cook_loop", next.session)
    /\ UNCHANGED <<recipe_versions, menu_plans, ratings, today, settings>>

\* The final db.commit() of mark_meal_cooked and its return.
mark_meal_cooked_commit(r) ==
    /\ pc[r] = "cook_loop"
    /\ loc[r].ingredients = <<>>
    /\ Commit(FlushCooked(Store, loc[r]))
    /\ Return(r, "mark_meal_cooked", CookArgs(loc[r]),
              <<"meal", loc[r].inventory_changes>>)
    /\ UNCHANGED <<recipe_versions, menu_plans, ratings, today, settings>>

\* MenuPlanService.mark_meal_cooked, the whole call.
mark_meal_cooked(r, plan_id, meal_id, user_id) ==
    /\ Idle(r)
    /\ IF MealById(plan_id, meal_id) = {}
       THEN /\ Return(r, "mark_meal_cooked", <<plan_id, meal_id, user_id>>, <<"None", <<>>>>)
            /\ UNCHANGED <<inventoryVars, recipes, planned_meals>>
       ELSE /\ CookRoom(meal_id)
            /\ \E l \in mark_meal_cooked_reads(plan_id, meal_id, user_id) :
                  \E end \in cook_runs(Store, l) :
                      /\ Commit(end.store)
                      /\ Return(r, "mark_meal_cooked", <<plan_id, meal_id, user_id>>,
                                IF end.session.failed
                                THEN <<"error", <<>>>>
                                ELSE <<"meal", end.session.inventory_changes>>)
    /\ UNCHANGED <<recipe_versions, menu_plans, ratings, today, settings>>

\* ------------------------------------------------------------ shopping list
\* The strings the list is sorted by, in Python's string order.
Alphabet == <<"", " Rice", "Egg", "Rice", "dairy", "grains", "other", "pantry">>

Rank(str) == CHOOSE k \in DOMAIN Alphabet : Alphabet[k] = str

\* The sequences that hold every element of the set S once.
SeqsOf(S) ==
    {f \in [1..Cardinality(S) -> S] : \A a, b \in 1..Cardinality(S) : f[a] = f[b] => a = b}

\* Every planned meal of the plan, cooked or not.
UncookedMeals_All(plan_id) ==
    {m \in DOMAIN planned_meals : planned_meals[m].menu_plan_id = plan_id}

\* The uncooked meals of the plan whose recipe is not soft-deleted.
UncookedMeals_LiveRecipes(plan_id) ==
    {m \in DOMAIN planned_meals :
        /\ planned_meals[m].menu_plan_id = plan_id
        /\ ~planned_meals[m].cooked
        /\ ~recipes[planned_meals[m].recipe_id].is_deleted}

\* db.query(PlannedMeal).filter(menu_plan_id == plan_id, cooked == False)
UncookedMeals(plan_id) ==
    {m \in DOMAIN planned_meals :
        planned_meals[m].menu_plan_id = plan_id /\ ~planned_meals[m].cooked}

\* quantity = ing.quantity * servings_ratio with servings_ratio =
\* (meal.servings_planned or version.servings or 1) / (version.servings or 1); the
\* quotients of the model's recipes are whole numbers.
scaled_quantity(ing, servings_planned, servings) ==
    (ing.quantity * Or1(servings_planned, servings)) \div Or1(servings, 0)

\* The key as the name is entered, in lower case.
IngredientKey_Untrimmed(name) == Lower(name)

\* key = ing.name.lower().strip()
IngredientKey(name) == Strip(Lower(name))

\* The passes of the inner loop for one meal with the ingredients without a quantity
\* left out altogether.
meal_ingredients_QuantifiedOnly(m) ==
    LET meal == planned_meals[m]
        recipe == recipes[meal.recipe_id]
        versions == VersionsByNumber(meal.recipe_id, recipe.current_version)
        pass(ing, servings) ==
            [key |-> IngredientKey(ing.name),
             quantity |-> scaled_quantity(ing, meal.servings_planned, servings),
             unit |-> ing.unit, category |-> ing.category, title |-> recipe.title]
    IN IF versions = {}
       THEN {<<>>}
       ELSE UNION {{[n \in DOMAIN ings |-> pass(ings[n], recipe_versions[k].servings)] :
                       ings \in Orders(SelectSeq(recipe_versions[k].ingredients,
                                    LAMBDA ing : ~ing.is_optional /\ ing.quantity # 0))} :
                     k \in versions}

\* The passes of the inner loop for one meal: what each non-optional ingredient of the
\* current version (any row with that number, in any order) adds under its key.
meal_ingredients(m) ==
    LET meal == planned_meals[m]
        recipe == recipes[meal.recipe_id]
        versions == VersionsByNumber(meal.recipe_id, recipe.current_version)
        pass(ing, servings) ==
            [key |-> IngredientKey(ing.name),
             quantity |-> IF ing.quantity # 0
                          THEN scaled_quantity(ing, meal.servings_planned, servings)
                          ELSE 0,
             unit |-> ing.unit, category |-> ing.category, title |-> recipe.title]
    IN IF versions = {}
       THEN {<<>>}
       ELSE UNION {{[n \in DOMAIN ings |-> pass(ings[n], recipe_versions[k].servings)] :
                       ings \in Orders(SelectSeq(recipe_versions[k].ingredients,
                                                 LAMBDA ing : ~ing.is_optional))} :
                     k \in versions}

\* The passes of the loops over the meals in the given order.
RECURSIVE plan_ingredients(_)
plan_ingredients(meals) ==
    IF meals = <<>> THEN {<<>>}
    ELSE {a \o b : a \in meal_ingredients(Head(meals)), b \in plan_ingredients(Tail(meals))}

\* The defaultdict's entry for a key not seen before.
NewEntry == [quantity |-> 0, unit |-> "", category |-> "other", recipes |-> <<>>]

\* An entry after another pass for its key: the quantity is added, the unit is set when
\* none is set yet, the category is set whenever the ingredient has one, the recipe
\* title is appended when not listed yet.
Merged(old, pass) ==
    [quantity |-> old.quantity + pass.quantity,
     unit |-> IF old.unit = "" /\ pass.unit # "" THEN pass.unit ELSE old.unit,
     category |-> IF pass.category # "" THEN pass.category ELSE old.category,
     recipes |-> IF \E j \in DOMAIN old.recipes : old.recipes[j] = pass.title
                 THEN old.recipes
                 ELSE Append(old.recipes, pass.title)]

\* aggregated after the given passes.
RECURSIVE aggregate(_, _)
aggregate(aggregated, passes) ==
    IF passes = <<>> THEN aggregated
    ELSE LET pass == Head(passes)
             old == IF pass.key \in DOMAIN aggregated THEN aggregated[pass.key]
                    ELSE NewEntry
         IN aggregate([key \in DOMAIN aggregated \cup {pass.key} |->
                          IF key = pass.key THEN Merged(old, pass) ELSE aggregated[key]],
                      Tail(passes))

\* A ShoppingListItem (its id aside).
ShoppingListItem(name, quantity, unit, category, needed_for_recipes) ==
    [name |-> name, quantity |-> quantity, unit |-> unit, category |-> category,
     needed_for_recipes |-> needed_for_recipes, in_stock |-> FALSE, checked |-> FALSE]

\* The quantity left to buy with the whole required quantity, whatever is in stock.
quantity_needed_Full(required, item) == required

\* quantity_needed against the item found (0: none): 0 stands for "no line".
quantity_needed(required, item) ==
    IF item = 0 THEN required
    ELSE IF inventory[item].quantity >= required THEN 0
    ELSE required - inventory[item].quantity

\* The check against the inventory: the sets of lines it can append, one line for every
\* key without an item of that name (ilike, .first(): any match) or with less in stock
\* than required.
shopping_items(aggregated) ==
    LET matches(key) ==
            {i \in DOMAIN inventory : inventory[i].live /\ ilike(inventory[i].item_name, key)}
        firsts == {c \in [DOMAIN aggregated -> DOMAIN inventory \cup {0}] :
                      \A key \in DOMAIN aggregated :
                          IF matches(key) = {} THEN c[key] = 0 ELSE c[key] \in matches(key)}
        emitted(key, item) ==
            item = 0 \/ quantity_needed(aggregated[key].quantity, item) > 0
    IN {{ShoppingListItem(Title(key),
                          quantity_needed(aggregated[key].quantity, c[key]),
                          aggregated[key].unit, aggregated[key].category,
                          aggregated[key].recipes) :
            key \in {k \in DOMAIN aggregated : emitted(k, c[k])}} : c \in firsts}

\* x.category, x.name before y's (grouped) or x.name before y's.
SortsBefore(x, y, grouped) ==
    IF grouped /\ x.category # y.category
    THEN Rank(x.category) < Rank(y.category)
    ELSE Rank(x.name) <= Rank(y.name)

\* shopping_items.sort(key=...) on lines of different names.
RECURSIVE Sorted(_, _)
Sorted(lines, grouped) ==
    IF lines = {} THEN <<>>
    ELSE LET first == CHOOSE x \in lines : \A y \in lines : SortsBefore(x, y, grouped)
         IN <<first>> \o Sorted(lines \ {first}, grouped)

\* The lists generate_shopping_list can return for an existing plan.
generate_shopping_list_reads(plan_id, grouped) ==
    UNION {UNION {{Sorted(lines, grouped) : lines \in shopping_items(aggregate(<<>>, passes))} :
                     passes \in plan_ingredients(meals)} :
             meals \in SeqsOf(UncookedMeals(plan_id))}

\* ShoppingListService.generate_shopping_list: ValueError for a missing plan, else the
\* response (menu_plan_id, items); nothing is written.
generate_shopping_list(r, plan_id, grouped) ==
    /\ Idle(r)
    /\ IF plan_id \notin DOMAIN menu_plans
       THEN Return(r, "generate_shopping_list", <<plan_id, grouped>>, <<"error", <<>>>>)
       ELSE \E items \in generate_shopping_list_reads(plan_id, grouped) :
               Return(r, "generate_shopping_list", <<plan_id, grouped>>, <<"list", items>>)
    /\ UNCHANGED <<inventoryVars, recipeVars, planVars, ratings, today, settings>>

\* ------------------------------------------------------------ suggestions
\* The recipe titles in the order of Recipe.title.asc().
TitleOrder == <<"Congee", "Fried rice", "Rice pudding">>

TitleRank(title) == CHOOSE k \in DOMAIN TitleOrder : TitleOrder[k] = title

\* The ORDER BY with last_cooked_date ascending as PostgreSQL orders it by default,
\* NULL after every date.
RotatesBefore_NullsLast(x, y) ==
    IF x.last_cooked_date # y.last_cooked_date
    THEN y.last_cooked_date = 0
         \/ (x.last_cooked_date # 0 /\ x.last_cooked_date < y.last_cooked_date)
    ELSE IF x.times_cooked # y.times_cooked THEN x.times_cooked < y.times_cooked
    ELSE TitleRank(x.title) <= TitleRank(y.title)

\* ORDER BY last_cooked_date ASC NULLS FIRST, times_cooked ASC, title ASC: row x can
\* come before row y (last_cooked_date 0 is NULL).
RotatesBefore(x, y) ==
    IF x.last_cooked_date # y.last_cooked_date
    THEN x.last_cooked_date = 0
         \/ (y.last_cooked_date # 0 /\ x.last_cooked_date < y.last_cooked_date)
    ELSE IF x.times_cooked # y.times_cooked THEN x.times_cooked < y.times_cooked
    ELSE TitleRank(x.title) <= TitleRank(y.title)

\* The suggestion built for a recipe row; days_since_cooked -1 stands for None, the
\* reason for its three wordings.
Suggestion(i) ==
    LET recipe == recipes[i]
        days_since_cooked ==
            IF recipe.last_cooked_date # 0 THEN today - recipe.last_cooked_date ELSE -1
    IN [recipe_id |-> i, title |-> recipe.title, description |-> recipe.description,
        times_cooked |-> recipe.times_cooked,
        last_cooked_date |-> recipe.last_cooked_date,
        days_since_cooked |-> days_since_cooked,
        reason |-> IF recipe.times_cooked = 0 THEN "Never tried before"
                   ELSE IF days_since_cooked > 0 THEN "Not cooked in days"
                   ELSE "Due for rotation",
        strategy |-> "rotation"]

\* The lists suggest_by_rotation can return: the first `limit` rows of the non-deleted
\* recipes in the query's order (rows equal in all three keys in any order).
suggest_by_rotation_reads(limit) ==
    LET n == Cardinality(LiveRecipes)
        len == IF limit < n THEN limit ELSE n
    IN {[k \in 1..len |-> Suggestion(f[k])] :
          f \in {f \in [1..n -> LiveRecipes] :
                   /\ \A a, b \in 1..n : f[a] = f[b] => a = b
                   /\ \A a, b \in 1..n :
                         a < b => RotatesBefore(recipes[f[a]], recipes[f[b]])}}

\* RecipeSuggestionService.suggest_by_rotation
suggest_by_rotation(r, limit) ==
    /\ Idle(r)
    /\ \E suggestions \in suggest_by_rotation_reads(limit) :
          Return(r, "suggest_by_rotation", <<limit>>, suggestions)
    /\ UNCHANGED <<inventoryVars, recipeVars, planVars, ratings, today, settings>>

\* ------------------------------------------------------------ ratings
\* RatingCreate payloads: rating, feedback and modifications ("" is None).
RatingInputs ==
    {[rating |-> TRUE, feedback |-> "tasty", modifications |-> ""],
     [rating |-> FALSE, feedback |-> "", modifications |-> "less salt"]}

\* A row of ratings (the id is the index); a deleted row keeps its id and nothing else.
Rating(recipe_id, user_id, rating_data) ==
    [recipe_id |-> recipe_id, user_id |-> user_id, rating |-> rating_data.rating,
     feedback |-> rating_data.feedback, modifications |-> rating_data.modifications,
     live |-> TRUE]

DeletedRating ==
    [recipe_id |-> 0, user_id |-> "", rating |-> FALSE, feedback |-> "",
     modifications |-> "", live |-> FALSE]

\* db.query(Rating).filter(Rating.recipe_id == recipe_id, Rating.user_id == user_id)
RatingsOf(recipe_id, user_id) ==
    {k \in DOMAIN ratings :
        /\ ratings[k].live
        /\ ratings[k].recipe_id = recipe_id
        /\ ratings[k].user_id = user_id}

\* The query by id without the filter on the owner.
RatingById_AnyUser(rating_id, user_id) ==
    {k \in DOMAIN ratings : k = rating_id /\ ratings[k].live}

\* db.query(Rating).filter(Rating.id == rating_id, Rating.user_id == user_id)
RatingById(rating_id, user_id) ==
    {k \in DOMAIN ratings : k = rating_id /\ ratings[k].live /\ ratings[k].user_id = user_id}

\* UniqueConstraint("recipe_id", "user_id") and the foreign key to recipes, for a new row.
uq_recipe_user_rating(recipe_id, user_id) == RatingsOf(recipe_id, user_id) = {}

fk_rating_recipe(recipe_id) == recipe_id \in DOMAIN recipes

\* The UPDATE of a rating row at flush: a column is written when the attribute's value
\* differs from the loaded one.
FlushRating(k, loaded, rating_data) ==
    [ratings EXCEPT
        ![k].rating = IF rating_data.rating # loaded.rating THEN rating_data.rating ELSE @,
        ![k].feedback =
            IF rating_data.feedback # loaded.feedback THEN rating_data.feedback ELSE @,
        ![k].modifications =
            IF rating_data.modifications # loaded.modifications
            THEN rating_data.modifications ELSE @]

\* What create_or_update_rating can hold after its query: existing (0: none) as loaded.
create_or_update_rating_reads(recipe_id, user_id, rating_data) ==
    IF RatingsOf(recipe_id, user_id) = {}
    THEN {[op |-> "create_or_update_rating", recipe |-> recipe_id, user |-> user_id,
           data |-> rating_data, existing |-> 0, loaded |-> DeletedRating]}
    ELSE {[op |-> "create_or_update_rating", recipe |-> recipe_id, user |-> user_id,
           data |-> rating_data, existing |-> k, loaded |-> ratings[k]] :
             k \in RatingsOf(recipe_id, user_id)}

\* create_or_update_rating up to the query for the existing rating.
create_or_update_rating_query(r, recipe_id, user_id, rating_data) ==
    /\ Idle(r)
    /\ \E l \in create_or_update_rating_reads(recipe_id, user_id, rating_data) :
          Goto(r, "create_or_update_rating", l)
    /\ UNCHANGED <<inventoryVars, recipeVars, planVars, ratings, today, settings>>

\* The upsert done as delete and insert: a re-rating gets a new row.
UpsertRating_Replace(l) ==
    Append(IF l.existing # 0 THEN [ratings EXCEPT ![l.existing] = DeletedRating] ELSE ratings,
           Rating(l.recipe, l.user, l.data))

\* The rows after the branch on existing: the existing row updated in place, or a new row.
UpsertRating(l) ==
    IF l.existing # 0
    THEN FlushRating(l.existing, l.loaded, l.data)
    ELSE Append(ratings, Rating(l.recipe, l.user, l.data))

\* create_or_update_rating from the branch on existing to db.commit() and db.refresh():
\* the commit raises when the existing row is gone, or when the new row breaks the
\* unique constraint or the foreign key; nothing catches it.
create_or_update_rating_write(r, l) ==
    /\ IF \/ l.existing # 0 /\ ~ratings[l.existing].live
          \/ l.existing = 0 /\ ~uq_recipe_user_rating(l.recipe, l.user)
          \/ l.existing = 0 /\ ~fk_rating_recipe(l.recipe)
       THEN /\ Return(r, "create_or_update_rating", <<l.recipe, l.user, l.data>>, "error")
            /\ UNCHANGED ratings
       ELSE /\ l.existing = 0 => Len(ratings) < MaxRatings
            /\ ratings' = UpsertRating(l)
            /\ Return(r, "create_or_update_rating", <<l.recipe, l.user, l.data>>, "rating")
    /\ UNCHANGED <<inventoryVars, recipeVars, planVars, today, settings>>

create_or_update_rating_commit(r) ==
    pc[r] = "create_or_update_rating" /\ create_or_update_rating_write(r, loc[r])

\* RatingService.create_or_update_rating, the whole call.
create_or_update_rating(r, recipe_id, user_id, rating_data) ==
    /\ Idle(r)
    /\ \E l \in create_or_update_rating_reads(recipe_id, user_id, rating_data) :
          create_or_update_rating_write(r, l)

\* RatingService.update_rating: the rating with that id owned by the user.
update_rating(r, rating_id, user_id, rating_data) ==
    /\ Idle(r)
    /\ IF RatingById(rating_id, user_id) = {}
       THEN /\ Return(r, "update_rating", <<rating_id, user_id, rating_data>>, "None")
            /\ UNCHANGED ratings
       ELSE /\ ratings' = FlushRating(rating_id, ratings[rating_id], rating_data)
            /\ Return(r, "update_rating", <<rating_id, user_id, rating_data>>, "rating")
    /\ UNCHANGED <<inventoryVars, recipeVars, planVars, today, settings>>

\* RatingService.delete_rating: the rating with that id owned by the user.
delete_rating(r, rating_id, user_id) ==
    /\ Idle(r)
    /\ IF RatingById(rating_id, user_id) = {}
       THEN /\ Return(r, "delete_rating", <<rating_id, user_id>>, "False")
            /\ UNCHANGED ratings
       ELSE /\ ratings' = [ratings EXCEPT ![rating_id] = DeletedRating]
            /\ Return(r, "delete_rating", <<rating_id, user_id>>, "True")
    /\ UNCHANGED <<inventoryVars, recipeVars, planVars, today, settings>>

\* threshold = float(settings.favorites_threshold) if settings else 0.75, in hundredths
DefaultFavoritesThreshold == 75

\* min_raters = settings.favorites_min_raters if settings else 3
DefaultMinRaters == 3

\* db.query(Rating).filter(Rating.recipe_id == recipe_id).all()
RatingsOfRecipe(recipe_id) ==
    {k \in DOMAIN ratings : ratings[k].live /\ ratings[k].recipe_id = recipe_id}

\* percentage >= threshold with percentage = thumbs_up / total if total > 0 else 0: the
\* float quotient is the rounded value of the fraction and float(threshold) the rounded
\* value of the two-decimal threshold, and rounding keeps their order for the counts of
\* the model, so the comparison is that of the fractions (threshold in hundredths).
PercentageReaches(thumbs_up, total, threshold) ==
    IF total > 0 THEN thumbs_up * 100 >= threshold * total ELSE 0 >= threshold

\* The favorite test with the minimum rater count ignored.
IsFavorite_RatioOnly(thumbs_up, total, threshold, min_raters) ==
    PercentageReaches(thumbs_up, total, threshold)

\* is_favorite = False; if total >= min_raters: is_favorite = percentage >= threshold
IsFavorite(thumbs_up, total, threshold, min_raters) ==
    IF total >= min_raters THEN PercentageReaches(thumbs_up, total, threshold) ELSE FALSE

\* The dict get_rating_summary returns.
RatingSummary(recipe_id) ==
    LET rows == RatingsOfRecipe(recipe_id)
        thumbs_up == Cardinality({k \in rows : ratings[k].rating})
        thumbs_down == Cardinality({k \in rows : ~ratings[k].rating})
        total == Cardinality(rows)
        threshold == IF settings.exists THEN settings.favorites_threshold
                     ELSE DefaultFavoritesThreshold
        min_raters == IF settings.exists THEN settings.favorites_min_raters
                      ELSE DefaultMinRaters
    IN [recipe_id |-> recipe_id, thumbs_up_count |-> thumbs_up,
        thumbs_down_count |-> thumbs_down, total_ratings |-> total,
        is_favorite |-> IsFavorite(thumbs_up, total, threshold, min_raters)]

\* RatingService.get_rating_summary: a read.
get_rating_summary(r, recipe_id) ==
    /\ Idle(r)
    /\ Return(r, "get_rating_summary", <<recipe_id>>, RatingSummary(recipe_id))
    /\ UNCHANGED <<inventoryVars, recipeVars, planVars, ratings, today, settings>>

\* ------------------------------------------------------ specifications
EmptyStore ==
    /\ inventory = <<>>
    /\ inventory_history = <<>>
    /\ recipes = <<>>
    /\ recipe_versions = <<>>
    /\ menu_plans = <<>>
    /\ planned_meals = <<>>
    /\ ratings = <<>>
    /\ today = 1
    /\ settings = NoSettings

NoRequests ==
    /\ pc = [r \in Req |-> "idle"]
    /\ loc = [r \in Req |-> NoLoc]
    /\ res = [op |-> "none", args |-> <<>>, value |-> "none"]

Init == EmptyStore /\ NoRequests

\* The calls of the inventory ledger, begun by request r.
InventoryCall(r) ==
    \/ \E n \in InventoryNames, q \in 0..MaxQty : create_item(r, n, q)
    \/ \E i \in ItemIds, d \in UpdateInputs : update_item_query(r, i, d)
    \/ \E i \in ItemIds : delete_item(r, i)
    \/ \E i \in ItemIds, q \in 1..MaxQty : deduct_quantity_query(r, i, q)
    \/ \E n \in InventoryNames : find_or_create_item_query(r, n)
    \/ \E n \in InventoryNames, q \in PurchaseQuantities : mark_item_purchased_query(r, n, q)

\* The commits of the inventory ledger's calls.
InventoryCommit(r) ==
    \/ update_item_commit(r)
    \/ deduct_quantity_commit(r)
    \/ find_or_create_item_commit(r)
    \/ mark_item_purchased_commit(r)

InventoryNext == \E r \in Req : InventoryCall(r) \/ InventoryCommit(r)

\* Requests on the inventory ledger, interleaved at the store.
InventorySpec == Init /\ [][InventoryNext]_vars

\* The calls of the inventory ledger, each run from its query to its return.
InventorySerialNext ==
    \E r \in {Caller} :
        \/ \E n \in InventoryNames, q \in 0..MaxQty : create_item(r, n, q)
        \/ \E i \in ItemIds, d \in UpdateInputs : update_item(r, i, d)
        \/ \E i \in ItemIds : delete_item(r, i)
        \/ \E i \in ItemIds, q \in 1..MaxQty : deduct_quantity(r, i, q)
        \/ \E n \in InventoryNames : find_or_create_item(r, n)
        \/ \E n \in InventoryNames, q \in PurchaseQuantities : mark_item_purchased(r, n, q)

\* Requests on the inventory ledger, one call at a time.
InventorySerialSpec == Init /\ [][InventorySerialNext]_vars

Spec == InventorySpec

\* One item in stock; the only calls are deduct_quantity, interleaved.
DeductRaceInit ==
    /\ \E n \in InventoryNames, q \in 0..MaxQty :
          /\ inventory = <<InventoryItem(n, q)>>
          /\ inventory_history = <<<<InventoryHistory("purchased", 0, q)>>>>
    /\ recipes = <<>> /\ recipe_versions = <<>>
    /\ menu_plans = <<>> /\ planned_meals = <<>>
    /\ ratings = <<>> /\ today = 1 /\ settings = NoSettings
    /\ NoRequests

DeductRaceNext ==
    \E r \in Req :
        \/ \E i \in ItemIds, q \in 1..MaxQty : deduct_quantity_query(r, i, q)
        \/ deduct_quantity_commit(r)

DeductRaceSpec == DeductRaceInit /\ [][DeductRaceNext]_vars

\* A stocked kitchen: rice and egg on the shelf, the Fried rice recipe at version 1 and
\* a plan with one meal of it.
KitchenInit ==
    /\ inventory = <<InventoryItem("rice", MaxQty), InventoryItem("egg", MaxQty)>>
    /\ inventory_history = <<<<InventoryHistory("purchased", 0, MaxQty)>>,
                             <<InventoryHistory("purchased", 0, MaxQty)>>>>
    /\ recipes = <<Recipe(FriedRice.title, FriedRice.description, LowerTags(FriedRice.tags))>>
    /\ recipe_versions = <<RecipeVersion(1, 1, FriedRice, InputIngredients(FriedRice), <<>>)>>
    /\ menu_plans = <<MenuPlan("week")>>
    /\ \E s \in ServingsPlanned : planned_meals = <<PlannedMeal(1, 1, s)>>
    /\ ratings = <<>>
    /\ today = 1
    /\ settings = NoSettings
    /\ NoRequests

\* mark_meal_cooked requests interleaved at the store with each other and delete_item.
CookNext ==
    \E r \in Req :
        \/ \E p \in PlanIds, m \in MealIds, u \in Cooks : mark_meal_cooked_query(r, p, m, u)
        \/ cook_ingredient(r)
        \/ cook_deduct(r)
        \/ mark_meal_cooked_commit(r)
        \/ \E i \in ItemIds : delete_item(r, i)

CookSpec == KitchenInit /\ [][CookNext]_vars

\* The calls that follow a recipe version's creation, on a stocked kitchen, each run from
\* its query to its return.
CookbookSerialNext ==
    \E r \in {Caller} :
        \/ \E i \in RecipeIds, d \in RecipePayloads : update_recipe(r, i, d)
        \/ \E i \in RecipeIds : delete_recipe(r, i)
        \/ \E i \in RecipeIds, v \in VersionNumbers : revert_recipe(r, i, v)
        \/ \E p \in PlanIds, m \in MealIds, u \in Cooks : mark_meal_cooked(r, p, m, u)

CookbookSerialSpec == KitchenInit /\ [][CookbookSerialNext]_vars

\* The calls that write recipe rows, on a stocked kitchen with one planned meal: recipes
\* are created, edited, reverted and soft-deleted while the meal is cooked and cooked
\* again; each call runs from its query to its return.
TallySerialNext ==
    \E r \in {Caller} :
        \/ \E d \in RecipePayloads : create_recipe(r, d)
        \/ \E i \in DOMAIN recipes, d \in RecipePayloads : update_recipe(r, i, d)
        \/ \E i \in DOMAIN recipes : delete_recipe(r, i)
        \/ \E i \in DOMAIN recipes, v \in VersionNumbers : revert_recipe(r, i, v)
        \/ \E m \in DOMAIN planned_meals, u \in Cooks :
              mark_meal_cooked(r, planned_meals[m].menu_plan_id, m, u)

TallySerialSpec == KitchenInit /\ [][TallySerialNext]_vars

\* date.today() moves on.
Tick ==
    /\ today < MaxDay
    /\ today' = today + 1
    /\ UNCHANGED <<inventoryVars, recipeVars, planVars, ratings, settings, pc, loc, res>>

\* The planned meal cooked, and cooked again, on a stocked kitchen while the recipe is
\* edited, an item is dropped from the shelf and the days pass; each call runs from its
\* query to its return.
CookSerialNext ==
    \/ \E r \in {Caller} :
          \/ \E p \in PlanIds, m \in MealIds, u \in Users : mark_meal_cooked(r, p, m, u)
          \/ \E i \in RecipeIds, d \in RecipePayloads : update_recipe(r, i, d)
          \/ \E i \in ItemIds : delete_item(r, i)
    \/ Tick

CookSerialSpec == KitchenInit /\ [][CookSerialNext]_vars

\* A kitchen with a plan without meals and two recipes that both need rice: Congee and
\* either Fried rice or Rice pudding; eggs are in stock and the rice item is in stock
\* or has been deleted.
ShoppingInit ==
    /\ \E item \in {InventoryItem("rice", MaxQty), DeletedItem} :
          /\ inventory = <<item, InventoryItem("egg", MaxQty)>>
          /\ inventory_history =
                <<IF item.live THEN <<InventoryHistory("purchased", 0, item.quantity)>>
                  ELSE <<>>,
                  <<InventoryHistory("purchased", 0, MaxQty)>>>>
    /\ \E d \in RecipePayloads :
          /\ recipes = <<Recipe(d.title, d.description, LowerTags(d.tags)),
                         Recipe(Congee.title, Congee.description, LowerTags(Congee.tags))>>
          /\ recipe_versions = <<RecipeVersion(1, 1, d, InputIngredients(d), <<>>),
                                 RecipeVersion(2, 1, Congee, InputIngredients(Congee), <<>>)>>
    /\ menu_plans = <<MenuPlan("week")>>
    /\ planned_meals = <<>>
    /\ ratings = <<>>
    /\ today = 1
    /\ settings = NoSettings
    /\ NoRequests

\* Shopping lists generated, for the plan and for plan ids without a plan, while meals
\* of the recipes are planned and the planned meals are cooked; each call runs from its
\* query to its return.
ShoppingNext ==
    \E r \in {Caller} :
        \/ \E p \in PlanIds, g \in BOOLEAN : generate_shopping_list(r, p, g)
        \/ \E p \in DOMAIN menu_plans, i \in DOMAIN recipes, s \in ServingsPlanned :
              add_meal_to_plan(r, p, i, s)
        \/ \E m \in DOMAIN planned_meals, u \in Cooks :
              mark_meal_cooked(r, planned_meals[m].menu_plan_id, m, u)

ShoppingSpec == ShoppingInit /\ [][ShoppingNext]_vars

\* A kitchen with a plan without meals and two recipes that both list rice, Fried rice
\* under "grains" and Rice pudding under "pantry"; the rice item is in stock, is empty
\* or has been deleted, and there is no item for eggs.
PantryInit ==
    /\ \E item \in {InventoryItem("rice", MaxQty), InventoryItem("rice", 0), DeletedItem} :
          /\ inventory = <<item>>
          /\ inventory_history =
                <<IF item.live THEN <<InventoryHistory("purchased", 0, item.quantity)>>
                  ELSE <<>>>>
    /\ recipes = <<Recipe(FriedRice.title, FriedRice.description, LowerTags(FriedRice.tags)),
                   Recipe(RicePudding.title, RicePudding.description,
                          LowerTags(RicePudding.tags))>>
    /\ recipe_versions = <<RecipeVersion(1, 1, FriedRice, InputIngredients(FriedRice), <<>>),
                           RecipeVersion(2, 1, RicePudding, InputIngredients(RicePudding),
                                         <<>>)>>
    /\ menu_plans = <<MenuPlan("week")>>
    /\ planned_meals = <<>>
    /\ ratings = <<>>
    /\ today = 1
    /\ settings = NoSettings
    /\ NoRequests

\* Meals of the two recipes are planned and cooked, recipes are soft-deleted and the
\* plan's shopping list is generated; each call runs from its query to its return.
PantryNext ==
    \E r \in {Caller} :
        \/ \E p \in DOMAIN menu_plans, g \in BOOLEAN : generate_shopping_list(r, p, g)
        \/ \E p \in DOMAIN menu_plans, i \in DOMAIN recipes, s \in ServingsPlanned :
              add_meal_to_plan(r, p, i, s)
        \/ \E m \in DOMAIN planned_meals, u \in Cooks :
              mark_meal_cooked(r, planned_meals[m].menu_plan_id, m, u)
        \/ \E i \in DOMAIN recipes : delete_recipe(r, i)

PantrySpec == PantryInit /\ [][PantryNext]_vars

\* The windows the app_settings row is set to.
WarningWindows == {1, DefaultExpirationWarningDays}

\* An inventory of two items, each without an expiration date or with one from past days
\* to days ahead, with or without an app_settings row.
ExpiringInit ==
    /\ \E e \in [1..2 -> 0..(MaxDay + MaxWindow)] :
          inventory = <<[InventoryItem("rice", MaxQty) EXCEPT !.expiration_date = e[1]],
                        [InventoryItem("egg", MaxQty) EXCEPT !.expiration_date = e[2]]>>
    /\ inventory_history = <<<<InventoryHistory("purchased", 0, MaxQty)>>,
                             <<InventoryHistory("purchased", 0, MaxQty)>>>>
    /\ recipes = <<>>
    /\ recipe_versions = <<>>
    /\ menu_plans = <<>>
    /\ planned_meals = <<>>
    /\ ratings = <<>>
    /\ today = 1
    /\ settings \in {NoSettings}
          \cup {[AppSettings(DefaultFavoritesThreshold, DefaultMinRaters)
                    EXCEPT !.expiration_warning_days = w] : w \in WarningWindows}
    /\ NoRequests

\* The expiring items asked for with a window of the caller's, as the days pass.
ExpiringNext ==
    \/ \E r \in {Caller} : \E days \in 0..MaxWindow : get_expiring_items(r, days)
    \/ Tick

ExpiringSpec == ExpiringInit /\ [][ExpiringNext]_vars

\* The plan's meals added, cooked, removed and replaced, each call run from its query
\* to its return.
PlanSerialNext ==
    \E r \in {Caller} :
        \/ \E p \in DOMAIN menu_plans, m \in MealIds, u \in Cooks :
              mark_meal_cooked(r, p, m, u)
        \/ \E p \in DOMAIN menu_plans, i \in DOMAIN recipes, s \in ServingsPlanned :
              add_meal_to_plan(r, p, i, s)
        \/ \E p \in PlanIds, d \in MenuPlanUpdates : update_menu_plan(r, p, d)
        \/ \E m \in MealIds : remove_meal_from_plan(r, m)

PlanSerialSpec == KitchenInit /\ [][PlanSerialNext]_vars

\* Three recipes, each planned once, and nothing in the inventory.
RotationInit ==
    /\ inventory = <<>>
    /\ inventory_history = <<>>
    /\ recipes = [k \in 1..3 |->
                     LET d == <<FriedRice, RicePudding, Congee>>[k]
                     IN Recipe(d.title, d.description, LowerTags(d.tags))]
    /\ recipe_versions = [k \in 1..3 |->
                             LET d == <<FriedRice, RicePudding, Congee>>[k]
                             IN RecipeVersion(k, 1, d, InputIngredients(d), <<>>)]
    /\ menu_plans = <<MenuPlan("week")>>
    /\ planned_meals = [k \in 1..3 |-> PlannedMeal(1, k, 0)]
    /\ ratings = <<>>
    /\ today = 1
    /\ settings = NoSettings
    /\ NoRequests

\* Suggestions asked for with any limit while the meals are cooked on one day or
\* another and recipes are soft-deleted.
RotationNext ==
    \/ \E r \in {Caller} :
          \/ \E limit \in 0..3 : suggest_by_rotation(r, limit)
          \/ \E m \in DOMAIN planned_meals, u \in Cooks :
                mark_meal_cooked(r, planned_meals[m].menu_plan_id, m, u)
          \/ \E i \in DOMAIN recipes : delete_recipe(r, i)
    \/ Tick

RotationSpec == RotationInit /\ [][RotationNext]_vars

\* The calls on a stocked kitchen, each run from its query to its return.
KitchenSerialNext ==
    \E r \in {Caller} :
        \/ \E d \in RecipePayloads : create_recipe(r, d)
        \/ \E i \in RecipeIds, d \in RecipePayloads : update_recipe(r, i, d)
        \/ \E i \in RecipeIds : delete_recipe(r, i)
        \/ \E i \in RecipeIds, v \in VersionNumbers : revert_recipe(r, i, v)
        \/ \E n \in PlanNames : create_menu_plan(r, n)
        \/ \E p \in PlanIds, i \in RecipeIds, s \in ServingsPlanned :
              add_meal_to_plan(r, p, i, s)
        \/ \E p \in PlanIds, m \in MealIds, u \in Cooks : mark_meal_cooked(r, p, m, u)

KitchenSerialSpec == KitchenInit /\ [][KitchenSerialNext]_vars

\* First and later create_or_update_rating requests on a stocked kitchen, interleaved
\* at the store.
RatingRaceNext ==
    \E r \in Req :
        \/ \E i \in RecipeIds, u \in Users, d \in RatingInputs :
              create_or_update_rating_query(r, i, u, d)
        \/ create_or_update_rating_commit(r)

RatingRaceSpec == KitchenInit /\ [][RatingRaceNext]_vars

\* The rating calls on a stocked kitchen, each run from its query to its return.
RatingSerialNext ==
    \E r \in {Caller} :
        \/ \E i \in RecipeIds, u \in Users, d \in RatingInputs :
              create_or_update_rating(r, i, u, d)
        \/ \E k \in RatingIds, u \in Users, d \in RatingInputs : update_rating(r, k, u, d)
        \/ \E k \in RatingIds, u \in Users : delete_rating(r, k, u)

RatingSerialSpec == KitchenInit /\ [][RatingSerialNext]_vars

\* The users who rate, in the order of their first ratings.
Raters == <<"ann", "bob", "cy", "dee", "eve">>

\* The thresholds an administrator sets, in hundredths.
Thresholds == {0, 50, 67, 75, 100}

\* A stocked kitchen whose recipe 1 has been rated by any number of users up to
\* MaxRaters, each up or down, under no settings row or any settings row.
SummaryInit ==
    /\ inventory = <<InventoryItem("rice", MaxQty), InventoryItem("egg", MaxQty)>>
    /\ inventory_history = <<<<InventoryHistory("purchased", 0, MaxQty)>>,
                             <<InventoryHistory("purchased", 0, MaxQty)>>>>
    /\ recipes = <<Recipe(FriedRice.title, FriedRice.description, LowerTags(FriedRice.tags))>>
    /\ recipe_versions = <<RecipeVersion(1, 1, FriedRice, InputIngredients(FriedRice), <<>>)>>
    /\ menu_plans = <<MenuPlan("week")>>
    /\ planned_meals = <<PlannedMeal(1, 1, 0)>>
    /\ \E n \in 0..MaxRaters : \E thumbs \in [1..n -> BOOLEAN] :
          ratings = [k \in 1..n |->
                        Rating(1, Raters[k], [rating |-> thumbs[k], feedback |-> "",
                                              modifications |-> ""])]
    /\ today = 1
    /\ settings \in {NoSettings}
          \cup {AppSettings(t, m) : t \in Thresholds, m \in 1..MaxRaters}
    /\ NoRequests

\* Summaries read between ratings withdrawn by their owners.
SummaryNext ==
    \E r \in {Caller} :
        \/ \E i \in RecipeIds : get_rating_summary(r, i)
        \/ \E k \in 1..MaxRaters : delete_rating(r, k, Raters[k])

SummarySpec == SummaryInit /\ [][SummaryNext]_vars

\* Requests on the recipe version store, interleaved at the store.
RecipeNext ==
    \E r \in Req :
        \/ \E d \in RecipePayloads : create_recipe(r, d)
        \/ \E i \in RecipeIds, d \in RecipePayloads : update_recipe_query(r, i, d)
        \/ update_recipe_commit(r)
        \/ \E i \in RecipeIds : delete_recipe(r, i)
        \/ \E i \in RecipeIds, v \in VersionNumbers : revert_recipe_query(r, i, v)
        \/ revert_recipe_commit(r)

RecipeSpec == Init /\ [][RecipeNext]_vars

\* The calls of the recipe version store, each run from its query to its return.
RecipeSerialNext ==
    \E r \in {Caller} :
        \/ \E d \in RecipePayloads : create_recipe(r, d)
        \/ \E i \in RecipeIds, d \in RecipePayloads : update_recipe(r, i, d)
        \/ \E i \in RecipeIds : delete_recipe(r, i)
        \/ \E i \in RecipeIds, v \in VersionNumbers : revert_recipe(r, i, v)

RecipeSerialSpec == Init /\ [][RecipeSerialNext]_vars

\* ------------------------------------------------------------- claims
\* The quantity reached by replaying history rows from 0, each row applying its change.
RECURSIVE Replay(_, _)
Replay(rows, q) ==
    IF rows = <<>> THEN q
    ELSE Replay(Tail(rows), q + (Head(rows).quantity_after - Head(rows).quantity_before))

\* C1: after any sequence of create_item, update_item, deduct_quantity,
\* find_or_create_item and mark_item_purchased calls, replaying an item's history rows
\* in write order from quantity 0 ends at the item's current quantity: the last row's
\* quantity_after is item.quantity, and an item without rows has quantity 0.
C1_LedgerReplay ==
    \A i \in LiveItems :
        /\ Replay(inventory_history[i], 0) = inventory[i].quantity
        /\ inventory_history[i] = <<>> => inventory[i].quantity = 0
        /\ inventory_history[i] # <<>> =>
              Last(inventory_history[i]).quantity_after = inventory[i].quantity

\* An item whose ledger holds a purchase, a manual adjustment and a deduction.
C1_Witness ==
    \E i \in LiveItems :
        /\ Len(inventory_history[i]) = 3
        /\ {inventory_history[i][k].change_type : k \in 1..3}
              = {"purchased", "adjusted", "auto_deducted"}
        /\ inventory_history[i][3].quantity_after # inventory_history[i][3].quantity_before

\* Request r commits a deduct_quantity on an item that still exists.
DeductCommits(r) ==
    /\ pc[r] = "deduct_quantity"
    /\ pc'[r] = "idle"
    /\ inventory[loc[r].item].live

\* C2: interleaved deduct_quantity calls lose no deduction: each call takes its
\* amount off the quantity the item has when the call writes, max(0, quantity - amount),
\* so two calls with amounts a and b end at max(0, max(0, q - a) - b); no call writes a
\* quantity computed from a read that another call's write has made stale.
C2_NoLostDeduction ==
    [][\A r \in Req :
          DeductCommits(r) =>
              inventory'[loc[r].item].quantity
                  = Max(0, inventory[loc[r].item].quantity - loc[r].quantity)]_vars

\* C4: no inventory quantity is ever negative; deduct_quantity on an existing item
\* returns True and leaves max(0, old - amount), which is exactly 0 when the amount is
\* larger than the quantity (old being the item's quantity, read by the call and not
\* overwritten since).
C4_NeverNegative ==
    /\ [](\A i \in DOMAIN inventory : inventory[i].quantity >= 0)
    /\ [][\A r \in Req :
            DeductCommits(r) =>
                LET i == loc[r].item
                    old == inventory[i].quantity
                IN /\ res'.value = "True"
                   /\ old = loc[r].old_quantity =>
                         /\ inventory'[i].quantity = Max(0, old - loc[r].quantity)
                         /\ loc[r].quantity > old => inventory'[i].quantity = 0]_vars

\* A deduction of more than the item holds has left it at 0.
C4_Witness ==
    \E i \in LiveItems :
        /\ inventory_history[i] # <<>>
        /\ Last(inventory_history[i]).change_type = "auto_deducted"
        /\ Last(inventory_history[i]).quantity_before = 1
        /\ Last(inventory_history[i]).quantity_after = 0
        /\ inventory[i].quantity = 0
        /\ res.op = "deduct_quantity" /\ res.value = "True"

\* C5: for every item, the history rows in the order they were written form a chain:
\* the first row starts from the creation baseline 0 and every later row's
\* quantity_before is the row before's quantity_after.
C5_HistoryChain ==
    \A i \in DOMAIN inventory_history :
        LET rows == inventory_history[i] IN
        \A k \in 1..Len(rows) :
            rows[k].quantity_before = IF k = 1 THEN 0 ELSE rows[k - 1].quantity_after

\* The fields of a version that a copy carries over.
VersionContent(version) ==
    [prep_time_minutes |-> version.prep_time_minutes,
     cook_time_minutes |-> version.cook_time_minutes,
     servings |-> version.servings, difficulty |-> version.difficulty,
     instructions |-> version.instructions, ingredients |-> version.ingredients]

\* C7: revert_recipe(recipe, v) on an existing non-deleted recipe with an existing
\* version v returns the recipe and adds exactly one version row, numbered old
\* current_version + 1, with the prep time, cook time, servings, difficulty, instructions
\* and ingredient list of v; current_version becomes that number, which is larger than
\* the old one and is not v.
C7_RevertCopiesForward ==
    [][res'.op = "revert_recipe" =>
          LET i == res'.args[1]
              v == res'.args[2]
          IN (i \in LiveRecipes /\ VersionsByNumber(i, v) # {}) =>
                /\ res'.value = "recipe"
                /\ Len(recipe_versions') = Len(recipe_versions) + 1
                /\ SubSeq(recipe_versions', 1, Len(recipe_versions)) = recipe_versions
                /\ Last(recipe_versions').recipe_id = i
                /\ Last(recipe_versions').version_number = recipes[i].current_version + 1
                /\ \A k \in VersionsByNumber(i, v) :
                      VersionContent(Last(recipe_versions'))
                          = VersionContent(recipe_versions[k])
                /\ recipes'[i].current_version = recipes[i].current_version + 1
                /\ recipes'[i].current_version > recipes[i].current_version
                /\ recipes'[i].current_version # v]_vars

\* A recipe updated once and then reverted to version 1: version 3 is the copy of
\* version 1 and differs from version 2.
C7_Witness ==
    /\ res.op = "revert_recipe"
    /\ res.value = "recipe"
    /\ \E k1, k2, k3 \in DOMAIN recipe_versions :
          /\ recipe_versions[k1].recipe_id = res.args[1]
          /\ recipe_versions[k2].recipe_id = res.args[1]
          /\ recipe_versions[k3].recipe_id = res.args[1]
          /\ recipe_versions[k1].version_number = 1
          /\ recipe_versions[k2].version_number = 2
          /\ recipe_versions[k3].version_number = 3
          /\ recipe_versions[k3].change_description = <<"Reverted to version", 1>>
          /\ VersionContent(recipe_versions[k3]) = VersionContent(recipe_versions[k1])
          /\ VersionContent(recipe_versions[k3]) # VersionContent(recipe_versions[k2])
          /\ recipes[res.args[1]].current_version = 3

\* C8: in every reachable state, also with update_recipe and revert_recipe requests on
\* one recipe interleaved, a recipe has one RecipeVersion row per version_number and its
\* current_version is the number of one of its rows.
C8_OneVersionPerNumber ==
    \A i \in DOMAIN recipes :
        /\ \A v \in VersionNumbers : Cardinality(VersionsByNumber(i, v)) <= 1
        /\ VersionsByNumber(i, recipes[i].current_version) # {}

\* The session l of a mark_meal_cooked call still has a deduction to make.
DeductionAhead(l) ==
    \/ l.item # 0
    \/ \E k \in DOMAIN l.ingredients :
          /\ ~l.ingredients[k].is_optional
          /\ l.ingredients[k].quantity # 0
          /\ ItemsByName(l.ingredients[k].name) # {}

\* C3: mark_meal_cooked is all-or-nothing: while a call is inside its ingredient loop
\* with a deduction still to make, nothing of the call is committed (its meal and
\* recipe attributes and its earlier deductions are not in the store for another
\* request to see or for a failure to leave behind).
C3_AllOrNothing ==
    \A r \in Req :
        (pc[r] \in {"cook_loop", "cook_deduct"} /\ DeductionAhead(loc[r])) => loc[r].dirty

\* The content of a version as submitted in a RecipeCreate / RecipeUpdate payload.
SubmittedContent(data) ==
    [prep_time_minutes |-> data.prep_time_minutes,
     cook_time_minutes |-> data.cook_time_minutes,
     servings |-> data.servings, difficulty |-> data.difficulty,
     instructions |-> data.instructions, ingredients |-> data.ingredients]

\* C6: a RecipeVersion row, once written, keeps its scalar fields and its ingredients
\* and is never removed, whatever update_recipe, revert_recipe, delete_recipe or
\* mark_meal_cooked call follows; the row written by create_recipe or update_recipe
\* holds what was submitted, so an earlier version reads back as submitted.
C6_VersionsImmutable ==
    /\ [][\A k \in DOMAIN recipe_versions :
             /\ k \in DOMAIN recipe_versions'
             /\ recipe_versions'[k] = recipe_versions[k]]_vars
    /\ [][(res'.op \in {"create_recipe", "update_recipe"} /\ res'.value = "recipe"
             /\ recipe_versions' # recipe_versions) =>
               VersionContent(Last(recipe_versions')) = SubmittedContent(Last(res'.args))]_vars

\* A recipe cooked, updated, reverted to version 1 and soft-deleted, with its three
\* versions in the store.
C6_Witness ==
    \E i \in DOMAIN recipes :
        /\ recipes[i].is_deleted
        /\ recipes[i].times_cooked > 0
        /\ recipes[i].current_version = 3
        /\ \E k2, k3 \in DOMAIN recipe_versions :
              /\ recipe_versions[k2].recipe_id = i
              /\ recipe_versions[k3].recipe_id = i
              /\ recipe_versions[k2].version_number = 2
              /\ recipe_versions[k3].version_number = 3
              /\ recipe_versions[k2].change_description = <<"more egg">>
              /\ recipe_versions[k3].change_description = <<"Reverted to version", 1>>

\* C9: create_or_update_rating is an upsert: there is never more than one Rating row
\* for a (recipe, user) pair; after a call for an existing recipe the pair's one row
\* carries the rating, feedback and modifications of that call, it is the row the pair
\* had before the call when there was one (same id), and no other row has changed.
C9_RatingUpsert ==
    /\ [](\A i \in RecipeIds, u \in Users : Cardinality(RatingsOf(i, u)) <= 1)
    /\ [][(res'.op = "create_or_update_rating" /\ fk_rating_recipe(res'.args[1])) =>
             LET i == res'.args[1]
                 u == res'.args[2]
                 d == res'.args[3]
                 after == {k \in DOMAIN ratings' :
                              /\ ratings'[k].live
                              /\ ratings'[k].recipe_id = i
                              /\ ratings'[k].user_id = u}
             IN /\ res'.value = "rating"
                /\ Cardinality(after) = 1
                /\ \A k \in after : ratings'[k] = Rating(i, u, d)
                /\ RatingsOf(i, u) # {} => after = RatingsOf(i, u)
                /\ \A k \in DOMAIN ratings : k \notin RatingsOf(i, u) => ratings'[k] = ratings[k]
                /\ Len(ratings') = Len(ratings) + (IF RatingsOf(i, u) = {} THEN 1 ELSE 0)]_vars

\* A user has re-rated a recipe: row 1, written thumbs-up first, now holds the
\* thumbs-down of the latest call, and another user's row stands next to it.
C9_Witness ==
    /\ res.op = "create_or_update_rating"
    /\ res.value = "rating"
    /\ Len(ratings) = 2
    /\ ratings[1] = Rating(1, res.args[2], res.args[3])
    /\ ~ratings[1].rating
    /\ ratings[2].live
    /\ ratings[2].rating
    /\ ratings[2].user_id # ratings[1].user_id

\* C10: when first-time create_or_update_rating requests of one user for one recipe
\* race, none of them ends in an error: a create_or_update_rating call for an existing
\* recipe returns the rating (the loser of the race updating the winner's row).
C10_RaceNotSurfaced ==
    (res.op = "create_or_update_rating" /\ fk_rating_recipe(res.args[1])) =>
        res.value = "rating"

\* C11: get_rating_summary counts the recipe's thumbs up and down, which add up to the
\* total, and returns is_favorite exactly when total >= favorites_min_raters and
\* up / total >= favorites_threshold (0.75 and 3 without a settings row): false with no
\* ratings, and false below the minimum rater count whatever the ratio.
C11_FavoriteRule ==
    res.op = "get_rating_summary" =>
        LET s == res.value
            rows == RatingsOfRecipe(res.args[1])
            up == Cardinality({k \in rows : ratings[k].rating})
            total == Cardinality(rows)
            threshold == IF settings.exists THEN settings.favorites_threshold ELSE 75
            min_raters == IF settings.exists THEN settings.favorites_min_raters ELSE 3
        IN /\ s.thumbs_up_count = up
           /\ s.total_ratings = total
           /\ s.thumbs_up_count + s.thumbs_down_count = s.total_ratings
           /\ s.is_favorite = (total >= min_raters /\ total > 0 /\ up * 100 >= threshold * total)
           /\ total = 0 => ~s.is_favorite
           /\ total < min_raters => ~s.is_favorite

\* Three of four raters up under the default settings: the ratio meets 0.75 exactly and
\* the recipe is a favorite.
C11_Witness ==
    /\ res.op = "get_rating_summary"
    /\ ~settings.exists
    /\ res.value.total_ratings = 4
    /\ res.value.thumbs_up_count = 3
    /\ res.value.is_favorite

\* Rating k exists and belongs to user u / to another user.
Owns(u, k) == k \in DOMAIN ratings /\ ratings[k].live /\ ratings[k].user_id = u

OwnedByOther(u, k) == k \in DOMAIN ratings /\ ratings[k].live /\ ratings[k].user_id # u

\* C12: update_rating and delete_rating called by a user who does not own the rating
\* return None / False and leave every rating row as it was; called by the owner they
\* return the rating / True, the row takes the call's values or is removed, and no other
\* row changes.
C12_RatingOwnership ==
    /\ [][res'.op = "update_rating" =>
             LET k == res'.args[1]
                 u == res'.args[2]
                 d == res'.args[3]
             IN /\ OwnedByOther(u, k) => (res'.value = "None" /\ ratings' = ratings)
                /\ Owns(u, k) =>
                      /\ res'.value = "rating"
                      /\ ratings' = [ratings EXCEPT ![k] = Rating(@.recipe_id, u, d)]]_vars
    /\ [][res'.op = "delete_rating" =>
             LET k == res'.args[1]
                 u == res'.args[2]
             IN /\ OwnedByOther(u, k) => (res'.value = "False" /\ ratings' = ratings)
                /\ Owns(u, k) =>
                      /\ res'.value = "True"
                      /\ ~ratings'[k].live
                      /\ \A j \in DOMAIN ratings : j # k => ratings'[j] = ratings[j]
                      /\ DOMAIN ratings' = DOMAIN ratings]_vars

\* A user's delete_rating on another user's rating has returned False and the rating
\* is still there.
C12_Witness ==
    /\ res.op = "delete_rating"
    /\ res.value = "False"
    /\ OwnedByOther(res.args[2], res.args[1])

\* A step in which a call of the operation returns; the passing of a day is the only
\* step that is not a call.
Returns(op) == res'.op = op /\ today' = today

\* C13: a mark_meal_cooked(plan, meal, actor) call on a meal of the plan succeeds and
\* leaves the meal cooked, cooked today by the actor, the recipe's times_cooked one
\* higher than before and its last_cooked_date today.
C13_CookedAndCounted ==
    [][(Returns("mark_meal_cooked") /\ MealById(res'.args[1], res'.args[2]) # {}) =>
          LET m == res'.args[2]
              i == planned_meals[m].recipe_id
          IN /\ res'.value[1] = "meal"
             /\ planned_meals'[m].cooked
             /\ planned_meals'[m].cooked_by = res'.args[3]
             /\ planned_meals'[m].cooked_date = today
             /\ recipes'[i].times_cooked = recipes[i].times_cooked + 1
             /\ recipes'[i].last_cooked_date = today]_vars

\* A meal cooked a second time, on a later day by another user: the recipe counts two
\* cookings and carries the later date.
C13_Witness ==
    /\ res.op = "mark_meal_cooked"
    /\ res.value[1] = "meal"
    /\ today = 2
    /\ planned_meals[res.args[2]].cooked_by = "bob"
    /\ recipes[planned_meals[res.args[2]].recipe_id].times_cooked = 2
    /\ recipes[planned_meals[res.args[2]].recipe_id].last_cooked_date = 2

\* The rows of the recipe's current version.
CurrentVersions(recipe_id) ==
    {k \in DOMAIN recipe_versions :
        /\ recipe_versions[k].recipe_id = recipe_id
        /\ recipe_versions[k].version_number = recipes[recipe_id].current_version}

\* The inventory items whose name is the ingredient's, letter case aside.
MatchingItems(ing) ==
    {i \in DOMAIN inventory :
        inventory[i].live /\ Lower(inventory[i].item_name) = Lower(ing.name)}

\* The ingredients mark_meal_cooked is to deduct: not optional, with a quantity and
\* with a matching item.
Deductible(ing) == ~ing.is_optional /\ ing.quantity # 0 /\ MatchingItems(ing) # {}

\* C14: a successful mark_meal_cooked takes, for every deductible ingredient of the
\* recipe's current version, quantity * (servings_planned, or the version's servings
\* when unset) / version.servings from its matching item, never below 0, and reports
\* one deduction entry for it; every other item keeps its quantity, so optional
\* ingredients and ingredients of other versions change nothing.
C14_DeductsScaled ==
    [][(Returns("mark_meal_cooked") /\ res'.value[1] = "meal") =>
          LET meal == planned_meals[res'.args[2]]
              changes == res'.value[2]
          IN \A k \in CurrentVersions(meal.recipe_id) :
                LET version == recipe_versions[k]
                    due == {n \in DOMAIN version.ingredients :
                               Deductible(version.ingredients[n])}
                    amount(n) ==
                        (version.ingredients[n].quantity
                           * (IF meal.servings_planned # 0 THEN meal.servings_planned
                              ELSE version.servings)) \div version.servings
                IN /\ \A n \in due :
                        \A i \in MatchingItems(version.ingredients[n]) :
                           /\ inventory'[i].quantity
                                 = Max(0, inventory[i].quantity - amount(n))
                           /\ Cardinality({j \in DOMAIN changes :
                                   changes[j].item_name = inventory[i].item_name}) = 1
                           /\ \A j \in DOMAIN changes :
                                 changes[j].item_name = inventory[i].item_name
                                     => changes[j].quantity_deducted = amount(n)
                   /\ Len(changes) = Cardinality(due)
                   /\ \A i \in DOMAIN inventory :
                        (\A n \in due : i \notin MatchingItems(version.ingredients[n]))
                            => inventory'[i] = inventory[i]]_vars

\* A meal planned for one serving of the two-serving recipe has been cooked: one of the
\* two of each ingredient is gone and both deductions are reported.
C14_Witness ==
    /\ res.op = "mark_meal_cooked"
    /\ res.value[1] = "meal"
    /\ planned_meals[res.args[2]].servings_planned = 1
    /\ Len(res.value[2]) = 2
    /\ \A j \in DOMAIN res.value[2] : res.value[2][j].quantity_deducted = 1
    /\ \A i \in DOMAIN inventory : inventory[i].quantity = 1

\* C15: a non-optional ingredient of the current version without a matching inventory
\* item, or without a quantity, raises no error in mark_meal_cooked: the meal comes back
\* cooked, no deduction entry names the ingredient, no item or history row is created
\* and the items of its name keep their quantity and their history.
C15_UnmatchedSkipped ==
    [][(Returns("mark_meal_cooked") /\ MealById(res'.args[1], res'.args[2]) # {}) =>
          LET meal == planned_meals[res'.args[2]]
              changes == res'.value[2]
          IN \A k \in CurrentVersions(meal.recipe_id) :
                \A n \in DOMAIN recipe_versions[k].ingredients :
                   LET ing == recipe_versions[k].ingredients[n]
                   IN (~ing.is_optional /\ ~Deductible(ing)) =>
                         /\ res'.value[1] = "meal"
                         /\ planned_meals'[res'.args[2]].cooked
                         /\ \A j \in DOMAIN changes :
                               Lower(changes[j].item_name) # Lower(ing.name)
                         /\ Len(inventory') = Len(inventory)
                         /\ RowCount(inventory_history')
                               = RowCount(inventory_history) + Len(changes)
                         /\ \A i \in MatchingItems(ing) :
                               /\ inventory'[i] = inventory[i]
                               /\ inventory_history'[i] = inventory_history[i]]_vars

\* Fried rice has been cooked after the rice was taken off the inventory: the meal is
\* cooked and the egg is the only deduction.
C15_Witness ==
    /\ res.op = "mark_meal_cooked"
    /\ res.value[1] = "meal"
    /\ planned_meals[res.args[2]].cooked
    /\ ~inventory[1].live
    /\ Len(res.value[2]) = 1
    /\ res.value[2][1].item_name = "egg"

\* C16: mark_meal_cooked with a meal id that does not exist, or that is a meal of
\* another plan than the given one, returns (None, []) and changes nothing: no cooked
\* flag, times_cooked, last_cooked_date, inventory quantity or history row.
C16_NotFoundNoEffect ==
    [][(/\ Returns("mark_meal_cooked")
        /\ \/ res'.args[2] \notin DOMAIN planned_meals
           \/ planned_meals[res'.args[2]].menu_plan_id # res'.args[1]) =>
          /\ res'.value = <<"None", <<>>>>
          /\ UNCHANGED <<inventory, inventory_history, recipes, recipe_versions,
                         menu_plans, planned_meals>>]_vars

\* The call named a plan the existing, uncooked meal is not part of.
C16_Witness ==
    /\ res.op = "mark_meal_cooked"
    /\ res.value = <<"None", <<>>>>
    /\ res.args[2] \in DOMAIN planned_meals
    /\ planned_meals[res.args[2]].menu_plan_id # res.args[1]
    /\ ~planned_meals[res.args[2]].cooked

\* An ingredient name in lower case without the blanks around it.
NormalName(name) == Strip(Lower(name))

\* The ingredients a plan's shopping list has to cover: meal m's n-th ingredient, for
\* the uncooked meals of the plan and the non-optional ingredients of the current
\* version of their recipes.
Needs(plan_id) ==
    {p \in (DOMAIN planned_meals) \X (1..MaxIngredients) :
        /\ planned_meals[p[1]].menu_plan_id = plan_id
        /\ ~planned_meals[p[1]].cooked
        /\ \E k \in CurrentVersions(planned_meals[p[1]].recipe_id) :
              /\ p[2] \in DOMAIN recipe_versions[k].ingredients
              /\ ~recipe_versions[k].ingredients[p[2]].is_optional}

NeedVersion(p) ==
    recipe_versions[CHOOSE k \in CurrentVersions(planned_meals[p[1]].recipe_id) : TRUE]

NeedName(p) == NormalName(NeedVersion(p).ingredients[p[2]].name)

NeedTitle(p) == recipes[planned_meals[p[1]].recipe_id].title

\* The ingredient's quantity (none counts 0) for the servings planned, or for the
\* version's servings when none are planned.
NeedQuantity(p) ==
    LET meal == planned_meals[p[1]]
        version == NeedVersion(p)
    IN (version.ingredients[p[2]].quantity
          * (IF meal.servings_planned # 0 THEN meal.servings_planned ELSE version.servings))
         \div version.servings

RECURSIVE TotalQuantity(_)
TotalQuantity(needs) ==
    IF needs = {} THEN 0
    ELSE LET p == CHOOSE p \in needs : TRUE
         IN NeedQuantity(p) + TotalQuantity(needs \ {p})

\* The required total of a name over the plan.
RequiredTotal(plan_id, name) ==
    TotalQuantity({p \in Needs(plan_id) : NeedName(p) = name})

\* The lines of a list for a name.
LinesFor(items, name) == {j \in DOMAIN items : items[j].name = Title(name)}

\* C17: for every name a plan requires, with required total R, the generated list has
\* exactly one line with quantity R when no inventory item has that name (letter case
\* aside); otherwise, for the quantity Q of an item of that name, no line when Q >= R
\* and exactly one line with quantity R - Q when Q < R.
C17_StockOffset ==
    [][(Returns("generate_shopping_list") /\ res'.value[1] = "list") =>
          LET plan_id == res'.args[1]
              items == res'.value[2]
          IN \A name \in {NeedName(p) : p \in Needs(plan_id)} :
                LET R == RequiredTotal(plan_id, name)
                    lines == LinesFor(items, name)
                    stock == {inventory[i].quantity :
                                 i \in {i \in DOMAIN inventory :
                                           /\ inventory[i].live
                                           /\ Lower(inventory[i].item_name) = name}}
                IN IF stock = {}
                   THEN /\ Cardinality(lines) = 1
                        /\ \A j \in lines : items[j].quantity = R
                   ELSE \E Q \in stock :
                           IF Q >= R THEN lines = {}
                           ELSE /\ Cardinality(lines) = 1
                                /\ \A j \in lines : items[j].quantity = R - Q]_vars

\* Fried rice and congee are planned with two rice and two eggs in stock: the list is
\* one line, the one rice that is missing; the eggs are covered.
C17_Witness ==
    /\ res.op = "generate_shopping_list"
    /\ res.value[1] = "list"
    /\ Len(res.value[2]) = 1
    /\ res.value[2][1].name = "Rice"
    /\ res.value[2][1].quantity = 1
    /\ \A i \in DOMAIN inventory : inventory[i].live /\ inventory[i].quantity = 2

\* C18: a generated list has at most one line per name; every line is for a lower-cased,
\* trimmed ingredient name of the plan's uncooked meals and, with the stock that was set
\* off against it, amounts to the sum of that name's servings-scaled quantities over
\* all those meals; its needed_for_recipes holds the titles of the recipes that need
\* the name, each once.
C18_MergedByName ==
    [][(Returns("generate_shopping_list") /\ res'.value[1] = "list") =>
          LET plan_id == res'.args[1]
              items == res'.value[2]
          IN /\ \A a, b \in DOMAIN items : items[a].name = items[b].name => a = b
             /\ \A j \in DOMAIN items :
                  \E name \in {NeedName(p) : p \in Needs(plan_id)} :
                     LET titles == items[j].needed_for_recipes
                         stock == {inventory[i].quantity :
                                      i \in {i \in DOMAIN inventory :
                                                /\ inventory[i].live
                                                /\ Lower(inventory[i].item_name) = name}}
                     IN /\ items[j].name = Title(name)
                        /\ \E Q \in IF stock = {} THEN {0} ELSE stock :
                              items[j].quantity + Q = RequiredTotal(plan_id, name)
                        /\ \A a, b \in DOMAIN titles : titles[a] = titles[b] => a = b
                        /\ {titles[a] : a \in DOMAIN titles}
                              = {NeedTitle(p) :
                                    p \in {p \in Needs(plan_id) : NeedName(p) = name}}]_vars

\* Two uncooked meals of fried rice for two, each needing two rice, and no rice item:
\* one line of four rice that names the recipe once.
C18_Witness ==
    /\ res.op = "generate_shopping_list"
    /\ res.value[1] = "list"
    /\ Cardinality({m \in UncookedMeals(res.args[1]) : planned_meals[m].recipe_id = 1}) = 2
    /\ \E j \in DOMAIN res.value[2] :
          /\ res.value[2][j].name = "Rice"
          /\ res.value[2][j].quantity = 4
          /\ res.value[2][j].needed_for_recipes = <<"Fried rice">>

\* C19: a meal that mark_meal_cooked has marked cooked stays cooked, and a generated
\* list covers the uncooked meals of its plan only: every line is for a name they
\* need, for no more than they need, and names their recipes only; a plan without
\* uncooked meals gets the empty list; the call fails exactly when the plan is missing.
C19_UncookedOnly ==
    /\ [][\A m \in DOMAIN planned_meals :
             /\ planned_meals[m].cooked => planned_meals'[m].cooked
             /\ (Returns("mark_meal_cooked") /\ res'.value[1] = "meal" /\ res'.args[2] = m)
                   => planned_meals'[m].cooked]_vars
    /\ [][Returns("generate_shopping_list") =>
             LET plan_id == res'.args[1]
                 items == res'.value[2]
                 uncooked == {m \in DOMAIN planned_meals :
                                 /\ planned_meals[m].menu_plan_id = plan_id
                                 /\ ~planned_meals[m].cooked}
             IN /\ (res'.value[1] = "error") = (plan_id \notin DOMAIN menu_plans)
                /\ (res'.value[1] = "error") => items = <<>>
                /\ uncooked = {} => items = <<>>
                /\ \A j \in DOMAIN items :
                     /\ \E p \in Needs(plan_id) :
                           /\ p[1] \in uncooked
                           /\ items[j].name = Title(NeedName(p))
                           /\ items[j].quantity <= RequiredTotal(plan_id, NeedName(p))
                     /\ \A a \in DOMAIN items[j].needed_for_recipes :
                           \E m \in uncooked :
                              recipes[planned_meals[m].recipe_id].title
                                 = items[j].needed_for_recipes[a]]_vars

\* The plan's meals have all been cooked and its list has come back empty.
C19_Witness ==
    /\ res.op = "generate_shopping_list"
    /\ res.value = <<"list", <<>>>>
    /\ \E m \in DOMAIN planned_meals :
          planned_meals[m].menu_plan_id = res.args[1] /\ planned_meals[m].cooked
    /\ \A m \in DOMAIN planned_meals :
          planned_meals[m].menu_plan_id = res.args[1] => planned_meals[m].cooked

\* C20: an update_item call on an existing item appends one 'adjusted' history row, from
\* the old quantity to the new one, exactly when its payload carries a quantity that
\* differs from the item's; with no quantity, or the same one, the item's history and
\* quantity stay as they are.
C20_AdjustedIffChanged ==
    [][(res'.op = "update_item" /\ ItemById(res'.args[1]) # {}) =>
          LET i == res'.args[1]
              item_data == res'.args[2]
              old == inventory[i].quantity
              differs == item_data.qkind = "value" /\ item_data.quantity # old
          IN /\ differs =>
                  /\ res'.value = "item"
                  /\ inventory_history'[i]
                        = Append(inventory_history[i],
                                 InventoryHistory("adjusted", old, item_data.quantity))
                  /\ inventory'[i].quantity = item_data.quantity
             /\ ~differs =>
                  /\ inventory_history'[i] = inventory_history[i]
                  /\ inventory'[i].quantity = old
             /\ item_data.qkind = "unset" =>
                  /\ res'.value = "item"
                  /\ inventory'[i].item_name = item_data.item_name
             /\ \A k \in DOMAIN inventory : k # i =>
                  /\ inventory'[k] = inventory[k]
                  /\ inventory_history'[k] = inventory_history[k]]_vars

\* An item bought at 2 has been adjusted to 1: its history ends with that row.
C20_Witness ==
    /\ res.op = "update_item"
    /\ res.value = "item"
    /\ res.args[2].qkind = "value"
    /\ res.args[2].quantity = 1
    /\ inventory[res.args[1]].live
    /\ inventory[res.args[1]].quantity = 1
    /\ Len(inventory_history[res.args[1]]) = 2
    /\ Last(inventory_history[res.args[1]]) = InventoryHistory("adjusted", 2, 1)

\* C21: get_expiring_items(days) returns exactly the items with an expiration date of
\* at most today + days, each with days_until = expiration date - today.
C21_CallerWindow ==
    [][Returns("get_expiring_items") =>
          LET days == res'.args[1]
              result == res'.value
          IN {<<result[k].item, result[k].days_until>> : k \in DOMAIN result}
                = {<<i, inventory[i].expiration_date - today>> :
                     i \in {i \in DOMAIN inventory :
                               /\ inventory[i].live
                               /\ inventory[i].expiration_date # 0
                               /\ inventory[i].expiration_date <= today + days}}]_vars

\* C22: update_recipe and revert_recipe on a recipe that is missing or soft-deleted, and
\* revert_recipe to a version number the recipe has no version of, return None and
\* leave every table as it was: no version or ingredient row is added and the recipe
\* rows keep current_version, title, description and tags.
C22_NotFoundUnchanged ==
    [][(/\ res'.op \in {"update_recipe", "revert_recipe"}
        /\ LET i == res'.args[1]
           IN \/ i \notin DOMAIN recipes
              \/ recipes[i].is_deleted
              \/ /\ res'.op = "revert_recipe"
                 /\ \A k \in DOMAIN recipe_versions :
                       ~(/\ recipe_versions[k].recipe_id = i
                         /\ recipe_versions[k].version_number = res'.args[2])) =>
          /\ res'.value = "None"
          /\ UNCHANGED <<recipes, recipe_versions, inventory, inventory_history,
                         menu_plans, planned_meals, ratings>>]_vars

\* An update of a soft-deleted recipe has come back None; the recipe still has its
\* one version.
C22_Witness ==
    /\ res.op = "update_recipe"
    /\ res.value = "None"
    /\ res.args[1] \in DOMAIN recipes
    /\ recipes[res.args[1]].is_deleted
    /\ recipes[res.args[1]].current_version = 1
    /\ Cardinality({k \in DOMAIN recipe_versions :
                       recipe_versions[k].recipe_id = res.args[1]}) = 1

\* C23: a planned meal that is cooked is cooked after every step in which its row
\* remains: no call sets the flag back.
C23_CookedOneWay ==
    [][\A m \in DOMAIN planned_meals :
          (planned_meals[m].cooked /\ planned_meals'[m] # DeletedMeal)
              => planned_meals'[m].cooked]_vars

\* The plan's cooked meal has been replaced through update_menu_plan: its row is gone
\* and the plan has a new, uncooked meal.
C23_Witness ==
    /\ res.op = "update_menu_plan"
    /\ res.value = "plan"
    /\ res.args[2].has_meals
    /\ planned_meals[1] = DeletedMeal
    /\ \E m \in DOMAIN planned_meals :
          /\ planned_meals[m].menu_plan_id = res.args[1]
          /\ ~planned_meals[m].cooked
    /\ recipes[1].times_cooked > 0

\* C24: suggest_by_rotation returns min(limit, number of non-deleted recipes) different
\* non-deleted recipes with their current statistics, in the order of last_cooked_date
\* (none first), then times_cooked, then title; no recipe left out sorts before a
\* returned one; every never-cooked recipe returned precedes every cooked one.
C24_RotationOrder ==
    [][Returns("suggest_by_rotation") =>
          LET limit == res'.args[1]
              rows == res'.value
              live == {i \in DOMAIN recipes : ~recipes[i].is_deleted}
              before(x, y) ==
                  \/ x.last_cooked_date = 0 /\ y.last_cooked_date # 0
                  \/ /\ x.last_cooked_date # 0 /\ y.last_cooked_date # 0
                     /\ x.last_cooked_date < y.last_cooked_date
                  \/ /\ x.last_cooked_date = y.last_cooked_date
                     /\ x.times_cooked < y.times_cooked
                  \/ /\ x.last_cooked_date = y.last_cooked_date
                     /\ x.times_cooked = y.times_cooked
                     /\ TitleRank(x.title) < TitleRank(y.title)
          IN /\ Len(rows) = IF limit < Cardinality(live) THEN limit ELSE Cardinality(live)
             /\ \A a, b \in DOMAIN rows : rows[a].recipe_id = rows[b].recipe_id => a = b
             /\ \A a \in DOMAIN rows :
                  /\ rows[a].recipe_id \in live
                  /\ rows[a].title = recipes[rows[a].recipe_id].title
                  /\ rows[a].times_cooked = recipes[rows[a].recipe_id].times_cooked
                  /\ rows[a].last_cooked_date = recipes[rows[a].recipe_id].last_cooked_date
             /\ \A a, b \in DOMAIN rows : a < b => ~before(rows[b], rows[a])
             /\ \A a \in DOMAIN rows :
                  \A i \in live \ {rows[b].recipe_id : b \in DOMAIN rows} :
                     ~before(recipes[i], rows[a])
             /\ \A a, b \in DOMAIN rows :
                  (rows[a].last_cooked_date = 0 /\ rows[b].last_cooked_date # 0) => a < b]_vars

\* All three recipes are suggested: the one never cooked, then the one cooked on day 1,
\* then the one cooked on day 2.
C24_Witness ==
    /\ res.op = "suggest_by_rotation"
    /\ Len(res.value) = 3
    /\ res.value[1].last_cooked_date = 0
    /\ res.value[2].last_cooked_date = 1
    /\ res.value[3].last_cooked_date = 2
    /\ \A a \in 1..3 :
          /\ ~recipes[res.value[a].recipe_id].is_deleted
          /\ recipes[res.value[a].recipe_id].last_cooked_date = res.value[a].last_cooked_date

\* C25: every line of a generated list carries the unit and the category of one and the
\* same ingredient of the plan's uncooked meals, the first one met for the line's name
\* (an ingredient without a category counts as "other"): no later ingredient of that
\* name replaces either.
C25_FirstSeenUnitAndCategory ==
    [][(Returns("generate_shopping_list") /\ res'.value[1] = "list") =>
          LET plan_id == res'.args[1]
              items == res'.value[2]
          IN \A j \in DOMAIN items :
                \E p \in Needs(plan_id) :
                   LET ing == NeedVersion(p).ingredients[p[2]]
                   IN /\ items[j].name = Title(NeedName(p))
                      /\ items[j].unit = ing.unit
                      /\ items[j].category
                            = IF ing.category # "" THEN ing.category ELSE "other"]_vars

\* C26: mark_meal_cooked on a meal of the plan that is cooked already is not rejected:
\* it returns the meal, raises the recipe's times_cooked by one again and, for every
\* deductible ingredient of the current version, takes the scaled quantity from the
\* matching item again (never below 0) and adds one more auto_deducted history row.
C26_CookedAgain ==
    [][(/\ Returns("mark_meal_cooked")
        /\ res'.args[2] \in DOMAIN planned_meals
        /\ planned_meals[res'.args[2]].menu_plan_id = res'.args[1]
        /\ planned_meals[res'.args[2]].cooked) =>
          LET meal == planned_meals[res'.args[2]]
              i == meal.recipe_id
          IN /\ res'.value[1] = "meal"
             /\ planned_meals'[res'.args[2]].cooked
             /\ recipes'[i].times_cooked = recipes[i].times_cooked + 1
             /\ \A k \in CurrentVersions(i) :
                  LET version == recipe_versions[k]
                      due == {n \in DOMAIN version.ingredients :
                                 Deductible(version.ingredients[n])}
                      amount(n) ==
                          (version.ingredients[n].quantity
                             * (IF meal.servings_planned # 0 THEN meal.servings_planned
                                ELSE version.servings)) \div version.servings
                  IN /\ Len(res'.value[2]) = Cardinality(due)
                     /\ RowCount(inventory_history')
                           = RowCount(inventory_history) + Cardinality(due)
                     /\ \A n \in due :
                          \A j \in MatchingItems(version.ingredients[n]) :
                             /\ inventory'[j].quantity
                                   = Max(0, inventory[j].quantity - amount(n))
                             /\ Len(inventory_history'[j]) = Len(inventory_history[j]) + 1
                             /\ Last(inventory_history'[j])
                                   = InventoryHistory("auto_deducted",
                                                      inventory[j].quantity,
                                                      inventory'[j].quantity)]_vars

\* The only meal, planned for one serving of the two-serving recipe, has been cooked
\* twice: times_cooked is 2, both items went from 2 to 1 to 0 and each has two
\* auto_deducted rows after its purchase.
C26_Witness ==
    /\ res.op = "mark_meal_cooked"
    /\ res.value[1] = "meal"
    /\ Len(res.value[2]) = 2
    /\ Len(planned_meals) = 1
    /\ planned_meals[1].cooked
    /\ planned_meals[1].servings_planned = 1
    /\ recipes[1].times_cooked = 2
    /\ \A j \in DOMAIN inventory :
          /\ inventory[j].quantity = 0
          /\ Len(inventory_history[j]) = 3
          /\ inventory_history[j][2] = InventoryHistory("auto_deducted", 2, 1)
          /\ inventory_history[j][3] = InventoryHistory("auto_deducted", 1, 0)

C28_RevertKeepsRecipeFields ==
    [][(res'.op = "revert_recipe" /\ res'.value = "recipe") =>
          LET i == res'.args[1] IN
          /\ recipes'[i].title = recipes[i].title
          /\ recipes'[i].description = recipes[i].description
          /\ recipes'[i].tags = recipes[i].tags
          /\ recipes'[i].times_cooked = recipes[i].times_cooked
          /\ recipes'[i].last_cooked_date = recipes[i].last_cooked_date
          /\ recipes'[i].is_deleted = recipes[i].is_deleted
          /\ recipes'[i].current_version = recipes[i].current_version + 1
          /\ \A j \in DOMAIN recipes \ {i} : recipes'[j] = recipes[j]
          /\ Len(recipe_versions') = Len(recipe_versions) + 1
          /\ \A k \in DOMAIN recipe_versions : recipe_versions'[k] = recipe_versions[k]
          /\ UNCHANGED <<inventory, inventory_history, menu_plans, planned_meals>>]_vars

\* Fried rice was updated to Rice pudding, cooked, and reverted to version 1: the
\* current version is the fried one again while the title, description and tags are
\* still the update's and the cooking statistics are kept.
C28_Witness ==
    /\ res.op = "revert_recipe"
    /\ res.value = "recipe"
    /\ res.args = <<1, 1>>
    /\ recipes[1].title = RicePudding.title
    /\ recipes[1].description = RicePudding.description
    /\ recipes[1].tags = LowerTags(RicePudding.tags)
    /\ recipes[1].times_cooked > 0
    /\ recipes[1].last_cooked_date # 0
    /\ \A k \in CurrentVersions(1) :
          recipe_versions[k].instructions = FriedRice.instructions

\* C29: add_meal_to_plan with a soft-deleted recipe returns None and plans nothing, but
\* a meal planned before the deletion is still processed: mark_meal_cooked returns it
\* cooked, raises the deleted recipe's times_cooked and deducts its deductible
\* ingredients, and generate_shopping_list lists every name such an uncooked meal
\* needs, under the recipe's title, unless the stock covers the plan's total.
C29_DeletedRecipeStillProcessed ==
    [][/\ (/\ res'.op = "add_meal_to_plan"
           /\ res'.args[2] \in DOMAIN recipes
           /\ recipes[res'.args[2]].is_deleted)
         => (res'.value = "None" /\ planned_meals' = planned_meals)
       /\ (/\ res'.op = "mark_meal_cooked"
           /\ res'.args[2] \in DOMAIN planned_meals
           /\ planned_meals[res'.args[2]].menu_plan_id = res'.args[1]
           /\ recipes[planned_meals[res'.args[2]].recipe_id].is_deleted)
         => LET meal == planned_meals[res'.args[2]]
                i == meal.recipe_id
            IN /\ res'.value[1] = "meal"
               /\ planned_meals'[res'.args[2]].cooked
               /\ recipes'[i].times_cooked = recipes[i].times_cooked + 1
               /\ recipes'[i].is_deleted
               /\ \A k \in CurrentVersions(i) :
                    \A n \in DOMAIN recipe_versions[k].ingredients :
                       LET ing == recipe_versions[k].ingredients[n]
                           amount == (ing.quantity
                                        * (IF meal.servings_planned # 0
                                           THEN meal.servings_planned
                                           ELSE recipe_versions[k].servings))
                                       \div recipe_versions[k].servings
                       IN Deductible(ing) =>
                             \A j \in MatchingItems(ing) :
                                /\ inventory'[j].quantity
                                      = Max(0, inventory[j].quantity - amount)
                                /\ Len(inventory_history'[j])
                                      = Len(inventory_history[j]) + 1
       /\ (res'.op = "generate_shopping_list" /\ res'.value[1] = "list")
         => LET plan_id == res'.args[1]
                items == res'.value[2]
                needs == {p \in Needs(plan_id) :
                             recipes[planned_meals[p[1]].recipe_id].is_deleted}
            IN \A p \in needs :
                  LET R == RequiredTotal(plan_id, NeedName(p))
                      lines == LinesFor(items, NeedName(p))
                      stock == {inventory[j].quantity :
                                   j \in {j \in DOMAIN inventory :
                                             /\ inventory[j].live
                                             /\ Lower(inventory[j].item_name) = NeedName(p)}}
                  IN (\A Q \in stock : Q < R) =>
                        /\ Cardinality(lines) = 1
                        /\ \A j \in lines :
                              /\ \E Q \in IF stock = {} THEN {0} ELSE stock :
                                    items[j].quantity = R - Q
                              /\ \E a \in DOMAIN items[j].needed_for_recipes :
                                    items[j].needed_for_recipes[a] = NeedTitle(p)]_vars

\* A meal of a soft-deleted recipe has just been cooked with a deduction, while another
\* uncooked meal of a soft-deleted recipe is still planned.
C29_Witness ==
    /\ res.op = "mark_meal_cooked"
    /\ res.value[1] = "meal"
    /\ Len(res.value[2]) > 0
    /\ recipes[planned_meals[res.args[2]].recipe_id].is_deleted
    /\ recipes[planned_meals[res.args[2]].recipe_id].times_cooked > 0
    /\ \E m \in DOMAIN planned_meals :
          ~planned_meals[m].cooked /\ recipes[planned_meals[m].recipe_id].is_deleted

\* C30: a name that the plan's uncooked meals need through non-optional ingredients
\* without a quantity only has a required total of 0 and still has its entry: the list
\* has exactly one line for it, with quantity 0, when no inventory item has the name,
\* and no line when an item has it, whatever the item's quantity; every line of every
\* list has in_stock false and checked false.
C30_UnquantifiedIngredient ==
    [][(res'.op = "generate_shopping_list" /\ res'.value[1] = "list") =>
          LET plan_id == res'.args[1]
              items == res'.value[2]
              names == {NeedName(p) : p \in Needs(plan_id)}
              unquantified == {name \in names :
                                  \A p \in Needs(plan_id) :
                                     NeedName(p) = name
                                        => NeedVersion(p).ingredients[p[2]].quantity = 0}
          IN /\ \A name \in unquantified :
                  LET lines == LinesFor(items, name)
                      matching == {j \in DOMAIN inventory :
                                      /\ inventory[j].live
                                      /\ Lower(inventory[j].item_name) = name}
                  IN IF matching = {}
                     THEN /\ Cardinality(lines) = 1
                          /\ \A j \in lines : items[j].quantity = 0
                     ELSE lines = {}
             /\ \A j \in DOMAIN items : ~items[j].in_stock /\ ~items[j].checked]_vars

\* Rice pudding, whose rice has no quantity, is the only uncooked meal and there is no
\* rice item: the list is the one line Rice with quantity 0, not in stock, not checked.
C30_Witness ==
    /\ res.op = "generate_shopping_list"
    /\ res.value[1] = "list"
    /\ ~inventory[1].live
    /\ \A m \in UncookedMeals(res.args[1]) : planned_meals[m].recipe_id = 2
    /\ Len(res.value[2]) = 1
    /\ res.value[2][1].name = "Rice"
    /\ res.value[2][1].quantity = 0
    /\ res.value[2][1].needed_for_recipes = <<RicePudding.title>>
    /\ ~res.value[2][1].in_stock
    /\ ~res.value[2][1].checked
====
